---- MODULE Spec2Model ----
(***************************************************************************)
(* Pantry store, usage applicator, usage extractor, ranking engine and     *)
(* snapshot formatter of recipe-ai-agent (src/app_recipes.py and           *)
(* src/gen_recipes_cli.py).                                                *)
(*                                                                         *)
(* Text is a sequence of one-character strings.  Quantities are integers   *)
(* (the DOUBLE column and Python floats, restricted to whole amounts).     *)
(* The ingredients table is a function from the stored name to the row:    *)
(* name is the table's UNIQUE KEY, so the id a SELECT by name returns      *)
(* identifies exactly the row of that name.  The recipe_history table is   *)
(* the sequence of its rows in id order.  schema records which tables      *)
(* exist and with which columns; session is what the last run of the       *)
(* Streamlit script left on the page for the next click; conns holds the   *)
(* transactions that pooled connections have open side by side.            *)
(***************************************************************************)
EXTENDS Integers, Sequences, FiniteSets, TLC

VARIABLES ingredients, call, result, history, schema, session, conns

vars == <<ingredients, call, result, history, schema, session, conns>>

(***************************************************************************)
(* The two tables and the page.                                            *)
(***************************************************************************)
NoTable == [exists |-> FALSE, columns |-> {}]

\* The columns of DDL_INGREDIENTS in app_recipes.py.
WebIngredientsColumns ==
    {"id", "name", "qty", "unit", "category", "diet_type", "expires_on",
     "created_at", "updated_at"}

\* The columns of DDL_HISTORY, the same in every file.
HistoryColumns ==
    {"id", "created_at", "dietary", "time_limit", "servings", "cuisine",
     "num_options", "ranked_snapshot", "result_markdown"}

\* CREATE TABLE IF NOT EXISTS: an existing table is left as it is.
CreateTableIfNotExists(table, columns) ==
    IF table.exists THEN table ELSE [exists |-> TRUE, columns |-> columns]

\* The database after ensure_tables of app_recipes.py ran on an empty one.
WebTables ==
    [ingredients |-> CreateTableIfNotExists(NoTable, WebIngredientsColumns),
     recipe_history |-> CreateTableIfNotExists(NoTable, HistoryColumns)]

\* No "Use this recipe" button is on the page.
NoSession == [usage |-> <<>>]

\* No connection holds an open transaction.
NoConns == <<>>

(***************************************************************************)
(* Bounds of the model.                                                    *)
(***************************************************************************)
MaxQty == 2
MaxItems == 2
MaxMdLen == 5
MaxRanked == 2
MaxLimit == 2
MaxWords == 2
MaxHistory == 2

(***************************************************************************)
(* Python text: str.strip() and str.lower().                               *)
(***************************************************************************)
Whitespace == {" ", "\n"}

UpperCase ==
    <<"A", "B", "C", "D", "E", "F", "G", "H", "I", "J", "K", "L", "M",
      "N", "O", "P", "Q", "R", "S", "T", "U", "V", "W", "X", "Y", "Z">>
LowerCase ==
    <<"a", "b", "c", "d", "e", "f", "g", "h", "i", "j", "k", "l", "m",
      "n", "o", "p", "q", "r", "s", "t", "u", "v", "w", "x", "y", "z">>

LowerChar(c) ==
    IF \E i \in 1..Len(UpperCase) : UpperCase[i] = c
    THEN LowerCase[CHOOSE i \in 1..Len(UpperCase) : UpperCase[i] = c]
    ELSE c

RECURSIVE LStrip(_)
LStrip(s) ==
    IF s # <<>> /\ Head(s) \in Whitespace THEN LStrip(Tail(s)) ELSE s

RECURSIVE RStrip(_)
RStrip(s) ==
    IF s # <<>> /\ s[Len(s)] \in Whitespace
    THEN RStrip(SubSeq(s, 1, Len(s) - 1))
    ELSE s

Strip(s) == RStrip(LStrip(s))

Lower(s) == [i \in 1..Len(s) |-> LowerChar(s[i])]

(***************************************************************************)
(* JSON scalars as Python sees them after json.loads: None, a number, a    *)
(* string or a bool.  A usage item is a dict: a function whose domain is   *)
(* the set of keys it has.                                                 *)
(***************************************************************************)
JNull == [t |-> "null", n |-> 0, s |-> <<>>]
JNum(k) == [t |-> "num", n |-> k, s |-> <<>>]
JStr(chars) == [t |-> "str", n |-> 0, s |-> chars]
JBool(b) == [t |-> "bool", n |-> IF b THEN 1 ELSE 0, s |-> <<>>]

\* dict.get(key): the value, or None when the key is missing.
Get(it, key) == IF key \in DOMAIN it THEN it[key] ELSE JNull

\* Python truthiness of a scalar.
Truthy(v) ==
    CASE v.t = "null" -> FALSE
      [] v.t = "num" -> v.n # 0
      [] v.t = "bool" -> v.n = 1
      [] v.t = "str" -> v.s # <<>>

\* Python's  v or d .
PyOr(v, d) == IF Truthy(v) THEN v ELSE d

DigitVal(c) ==
    CASE c = "0" -> 0 [] c = "1" -> 1 [] c = "2" -> 2 [] c = "3" -> 3
      [] c = "4" -> 4 [] c = "5" -> 5 [] c = "6" -> 6 [] c = "7" -> 7
      [] c = "8" -> 8 [] c = "9" -> 9 [] OTHER -> -1

RECURSIVE DigitsVal(_, _)
DigitsVal(s, acc) ==
    IF s = <<>> THEN acc ELSE DigitsVal(Tail(s), 10 * acc + DigitVal(Head(s)))

AllDigits(s) == s # <<>> /\ \A i \in 1..Len(s) : DigitVal(s[i]) >= 0

\* float(v): [ok, val]; ok = FALSE stands for the ValueError / TypeError that
\* float raises.  Strings are whole decimal numbers with an optional sign and
\* surrounding whitespace; anything else in the model's alphabet is rejected.
PyFloat(v) ==
    CASE v.t = "num" -> [ok |-> TRUE, val |-> v.n]
      [] v.t = "bool" -> [ok |-> TRUE, val |-> v.n]
      [] v.t = "null" -> [ok |-> FALSE, val |-> 0]
      [] v.t = "str" ->
            LET body == Strip(v.s)
                neg == body # <<>> /\ Head(body) = "-"
                signed == body # <<>> /\ Head(body) \in {"-", "+"}
                digits == IF signed THEN Tail(body) ELSE body
            IN  IF AllDigits(digits)
                THEN [ok |-> TRUE,
                      val |-> IF neg THEN 0 - DigitsVal(digits, 0)
                                     ELSE DigitsVal(digits, 0)]
                ELSE [ok |-> FALSE, val |-> 0]

(***************************************************************************)
(* apply_usage                                                             *)
(***************************************************************************)

\* name = (it.get("name") or "").strip().lower(); a truthy value that is not
\* a string has no strip(): AttributeError (ok = FALSE).
UsageName(it) ==
    LET v == PyOr(Get(it, "name"), JStr(<<>>))
    IN  IF v.t = "str" THEN [ok |-> TRUE, val |-> Lower(Strip(v.s))]
                       ELSE [ok |-> FALSE, val |-> <<>>]

\* qty = float(it.get("qty") or 0)
UsageQty(it) == PyFloat(PyOr(Get(it, "qty"), JNum(0)))

Max(a, b) == IF a >= b THEN a ELSE b
Min(a, b) == IF a <= b THEN a ELSE b

\* The subtraction without the max(0.0, ...) clamp.
NewQtyUnclamped(old, qty) == old - qty

\* new_qty = max(0.0, float(row["qty"]) - qty)
NewQty(old, qty) == Max(0, old - qty)

\* The body of the for loop, from item i on, inside the open transaction:
\* rows is the table as the connection sees it.
RECURSIVE ApplyLoop(_, _, _, _, _)
ApplyLoop(items, i, rows, updated, missing) ==
    IF i > Len(items)
    THEN [raised |-> FALSE, rows |-> rows, updated |-> updated, missing |-> missing]
    ELSE LET it == items[i]
             name == UsageName(it)
             qty == UsageQty(it)
         IN  IF ~name.ok \/ ~qty.ok
             THEN [raised |-> TRUE, rows |-> rows, updated |-> updated, missing |-> missing]
             ELSE IF name.val = <<>> \/ qty.val <= 0
             THEN ApplyLoop(items, i + 1, rows, updated, missing)
             ELSE IF name.val \notin DOMAIN rows
             THEN ApplyLoop(items, i + 1, rows, updated, Append(missing, name.val))
             ELSE LET old == rows[name.val].qty
                      new == NewQty(old, qty.val)
                  IN  ApplyLoop(items, i + 1,
                                [rows EXCEPT ![name.val].qty = new],
                                Append(updated,
                                       [name |-> name.val, old_qty |-> old, new_qty |-> new]),
                                missing)

\* apply_usage(engine, usage_items): engine.begin() commits when the block
\* ends and rolls back when an exception leaves it.
ApplyUsageOutcome(rows, items) ==
    LET r == ApplyLoop(items, 1, rows, <<>>, <<>>)
    IN  IF r.raised
        THEN [raised |-> TRUE, rows |-> rows, updated |-> <<>>, missing |-> <<>>]
        ELSE r

ApplyUsage(items) ==
    LET out == ApplyUsageOutcome(ingredients, items)
    IN  /\ ingredients' = out.rows
        /\ call' = [op |-> "apply_usage", items |-> items, before |-> ingredients]
        /\ result' = [raised |-> out.raised, updated |-> out.updated,
                      missing |-> out.missing]
        /\ UNCHANGED <<conns, history, schema, session>>

(***************************************************************************)
(* upsert_ingredient and delete_ingredient, as the web form calls them     *)
(***************************************************************************)
Row(qty, unit, category, diet_type, expires_on) ==
    [qty |-> qty, unit |-> unit, category |-> category,
     diet_type |-> diet_type, expires_on |-> expires_on]

\* INSERT ... ON DUPLICATE KEY UPDATE with name.strip().lower() as the key.
UpsertRows(rows, name, row) ==
    LET key == Lower(Strip(name))
    IN  [n \in DOMAIN rows \cup {key} |-> IF n = key THEN row ELSE rows[n]]

\* The "Add / Update Ingredient" form: an empty name is refused.
Upsert(name, qty, unit, category, diet_type, expires_on) ==
    LET key == Lower(Strip(name))
    IN  /\ ingredients' =
              IF key = <<>> THEN ingredients
              ELSE UpsertRows(ingredients, key,
                              Row(qty, unit, category, diet_type, expires_on))
        /\ call' = [op |-> "upsert", name |-> name,
                    row |-> Row(qty, unit, category, diet_type, expires_on)]
        /\ result' = [raised |-> FALSE, saved |-> key # <<>>]
        /\ session' = NoSession
        /\ UNCHANGED <<conns, history, schema>>

\* DELETE FROM ingredients WHERE id = :id, the id picked from the listed rows.
DeleteRows(rows, name) == [n \in DOMAIN rows \ {name} |-> rows[n]]

Delete(name) ==
    /\ name \in DOMAIN ingredients
    /\ ingredients' = DeleteRows(ingredients, name)
    /\ call' = [op |-> "delete", name |-> name]
    /\ result' = [raised |-> FALSE]
    /\ session' = NoSession
    /\ UNCHANGED <<conns, history, schema>>

(***************************************************************************)
(* The other two upsert paths: the form of app_basic.py and crud_test.py.  *)
(* Their INSERT names no diet_type column and their ON DUPLICATE KEY       *)
(* UPDATE assigns qty, unit, category and expires_on only.                 *)
(***************************************************************************)
\* diet_type VARCHAR(16) NOT NULL DEFAULT 'unknown'
DietTypeDefault == "unknown"

UpsertBasicRows(rows, key, qty, unit, category, expires_on) ==
    IF key \in DOMAIN rows
    THEN [rows EXCEPT ![key] =
              Row(qty, unit, category, rows[key].diet_type, expires_on)]
    ELSE [n \in DOMAIN rows \cup {key} |->
              IF n = key THEN Row(qty, unit, category, DietTypeDefault, expires_on)
              ELSE rows[n]]

\* The "Add / Update ingredient" form of app_basic.py; the name is stripped
\* and lower-cased by the form, an empty one is refused.
UpsertBasic(name, qty, unit, category, expires_on) ==
    LET key == Lower(Strip(name))
    IN  /\ ingredients' =
              IF key = <<>> THEN ingredients
              ELSE UpsertBasicRows(ingredients, key, qty, unit, category, expires_on)
        /\ call' = [op |-> "upsert_basic", name |-> name,
                    row |-> [qty |-> qty, unit |-> unit, category |-> category,
                             expires_on |-> expires_on]]
        /\ result' = [raised |-> FALSE, saved |-> key # <<>>]
        /\ UNCHANGED <<conns, history, schema, session>>

\* The row crud_test.py writes.
CrudName == <<"t", "o", "m", "a", "t", "o">>
CrudRow ==
    [qty |-> 3, unit |-> <<"p", "c", "s">>, category |-> "veg",
     expires_on |-> "2025-10-06"]

\* One run of crud_test.py.
UpsertCrud ==
    /\ ingredients' = UpsertBasicRows(ingredients, CrudName, CrudRow.qty, CrudRow.unit,
                                      CrudRow.category, CrudRow.expires_on)
    /\ call' = [op |-> "upsert_crud", name |-> CrudName, row |-> CrudRow]
    /\ result' = [raised |-> FALSE, saved |-> TRUE]
    /\ UNCHANGED <<conns, history, schema, session>>

(***************************************************************************)
(* Table creation: init_db.py, ensure_tables of gen_recipes_cli.py and     *)
(* ensure_tables of app_recipes.py.  Each runs its two CREATE TABLE IF NOT *)
(* EXISTS statements in one transaction.                                   *)
(***************************************************************************)
\* The columns of DDL_INGREDIENTS in init_db.py and gen_recipes_cli.py.
BasicIngredientsColumns ==
    {"id", "name", "qty", "unit", "category", "expires_on", "created_at", "updated_at"}

CreateTables(tables, ingredients_columns) ==
    [ingredients |-> CreateTableIfNotExists(tables.ingredients, ingredients_columns),
     recipe_history |-> CreateTableIfNotExists(tables.recipe_history, HistoryColumns)]

\* One run of init_db.py.
InitDb ==
    /\ schema' = CreateTables(schema, BasicIngredientsColumns)
    /\ call' = [op |-> "init_db", before |-> ingredients, tables |-> schema]
    /\ result' = [raised |-> FALSE]
    /\ UNCHANGED <<conns, ingredients, history, session>>

\* ensure_tables(engine) at the start of the command line's main.
EnsureTablesCli ==
    /\ schema' = CreateTables(schema, BasicIngredientsColumns)
    /\ call' = [op |-> "ensure_tables_cli", before |-> ingredients, tables |-> schema]
    /\ result' = [raised |-> FALSE]
    /\ UNCHANGED <<conns, ingredients, history, session>>

\* ensure_tables(engine) at the top of the web app's script.
EnsureTablesWeb ==
    /\ schema' = CreateTables(schema, WebIngredientsColumns)
    /\ call' = [op |-> "ensure_tables_web", before |-> ingredients, tables |-> schema]
    /\ result' = [raised |-> FALSE]
    /\ UNCHANGED <<conns, ingredients, history, session>>

(***************************************************************************)
(* parse_usage_from_markdown                                               *)
(*                                                                         *)
(* The markdown is a sequence of tokens, each a run of characters: the     *)
(* fence (three backquotes), a word, a whitespace run, or a JSON document; the text is    *)
(* their concatenation.                                                    *)
(***************************************************************************)
\* "^" stands for the backquote character.
Fence == <<"^", "^", "^">>
UsageTag == <<"u", "s", "a", "g", "e", "_", "j", "s", "o", "n">>
Newline == <<"\n">>

IsSpace(tok) == tok # <<>> /\ \A i \in 1..Len(tok) : tok[i] \in Whitespace

\* The JSON documents of the model's texts and what json.loads makes of them.
RecipeDoc == <<"[", "R", "]">>
RecipeValue ==
    << [title |-> JStr(<<"t">>),
        items |-> << [name |-> JStr(<<"a">>), qty |-> JNum(1), unit |-> JStr(<<"g">>)] >>] >>

\* One recipe written as a JSON object, without the list around it.
ObjectDoc == <<"{", "R", "}">>
ObjectValue == RecipeValue[1]

\* json.loads(text): [ok, val, kind]; ok = FALSE stands for JSONDecodeError
\* and kind is the Python type of val.  The text is valid when, whitespace
\* aside, it is exactly one JSON document.
JsonLoads(toks) ==
    IF toks = <<RecipeDoc>> THEN [ok |-> TRUE, val |-> RecipeValue, kind |-> "list"]
    ELSE IF toks = <<ObjectDoc>> THEN [ok |-> TRUE, val |-> ObjectValue, kind |-> "dict"]
    ELSE [ok |-> FALSE, val |-> <<>>, kind |-> "list"]

\* str.strip() of a token run: leading and trailing whitespace tokens go.
RECURSIVE StripToks(_)
StripToks(toks) ==
    IF toks # <<>> /\ IsSpace(Head(toks)) THEN StripToks(Tail(toks))
    ELSE IF toks # <<>> /\ IsSpace(toks[Len(toks)])
         THEN StripToks(SubSeq(toks, 1, Len(toks) - 1))
         ELSE toks

\* The first fence at or after position j, 0 when there is none.
RECURSIVE FindFence(_, _)
FindFence(md, j) ==
    IF j > Len(md) THEN 0
    ELSE IF md[j] = Fence THEN j ELSE FindFence(md, j + 1)

\* _USAGE_BLOCK_RE.search(md): the leftmost fence followed by usage_json (any
\* letter case), then the shortest text up to a closing fence.
RECURSIVE UsageBlockSearch(_, _)
UsageBlockSearch(md, i) ==
    IF i + 1 > Len(md) THEN [found |-> FALSE, json |-> <<>>]
    ELSE IF md[i] = Fence /\ Lower(md[i + 1]) = UsageTag /\ FindFence(md, i + 2) # 0
         THEN [found |-> TRUE,
               json |-> StripToks(SubSeq(md, i + 2, FindFence(md, i + 2) - 1))]
         ELSE UsageBlockSearch(md, i + 1)

NoneText == [isNone |-> TRUE, toks |-> <<>>]
Text(toks) == [isNone |-> FALSE, toks |-> toks]

\* try: return json.loads(...)  without its  except Exception: return [] .
LoadUsageUncaught(toks) ==
    LET r == JsonLoads(StripToks(toks))
    IN  [raised |-> ~r.ok, value |-> r.val, kind |-> r.kind]

\* try: return json.loads(m.group("json").strip())  except Exception: return []
LoadUsage(toks) ==
    LET r == JsonLoads(StripToks(toks))
    IN  [raised |-> FALSE, value |-> IF r.ok THEN r.val ELSE <<>>,
         kind |-> IF r.ok THEN r.kind ELSE "list"]

\* parse_usage_from_markdown(md)
ParseUsageFromMarkdown(md) ==
    LET text == IF md.isNone THEN <<>> ELSE md.toks
        m == UsageBlockSearch(text, 1)
    IN  IF ~m.found THEN [raised |-> FALSE, value |-> <<>>, kind |-> "list"]
        ELSE LoadUsage(m.json)

ParseUsage ==
    /\ call.op = "markdown"
    /\ call' = [op |-> "parse_usage_from_markdown", md |-> call.md]
    /\ result' = ParseUsageFromMarkdown(call.md)
    /\ UNCHANGED <<conns, ingredients, history, schema, session>>

(***************************************************************************)
(* days_left                                                               *)
(*                                                                         *)
(* Time is counted in ticks of one eighth of a day.  A clock reading is    *)
(* [day, tick]: the proleptic Gregorian ordinal of the date and the ticks  *)
(* since midnight.                                                         *)
(***************************************************************************)
TicksPerDay == 8
SentinelDays == 9999

IsLeap(y) == (y % 4 = 0 /\ y % 100 # 0) \/ y % 400 = 0

DaysInMonth(y, m) ==
    CASE m \in {1, 3, 5, 7, 8, 10, 12} -> 31
      [] m \in {4, 6, 9, 11} -> 30
      [] OTHER -> IF IsLeap(y) THEN 29 ELSE 28

RECURSIVE DaysBeforeMonth(_, _)
DaysBeforeMonth(y, m) ==
    IF m = 1 THEN 0 ELSE DaysBeforeMonth(y, m - 1) + DaysInMonth(y, m - 1)

\* date.toordinal(): 1 for 0001-01-01.
Ordinal(y, m, d) ==
    LET b == y - 1
    IN  365 * b + (b \div 4) - (b \div 100) + (b \div 400) + DaysBeforeMonth(y, m) + d

\* The pieces of s between the dashes.
RECURSIVE SplitDash(_, _, _)
SplitDash(s, piece, done) ==
    IF s = <<>> THEN Append(done, piece)
    ELSE IF Head(s) = "-" THEN SplitDash(Tail(s), <<>>, Append(done, piece))
         ELSE SplitDash(Tail(s), Append(piece, Head(s)), done)

\* datetime.strptime(s, "%Y-%m-%d"): [ok, day]; ok = FALSE is the ValueError.
\* %Y takes four digits, %m and %d one or two, and the date must exist.
Strptime(s) ==
    LET parts == SplitDash(s, <<>>, <<>>)
        wellFormed ==
            /\ Len(parts) = 3
            /\ AllDigits(parts[1]) /\ Len(parts[1]) = 4
            /\ AllDigits(parts[2]) /\ Len(parts[2]) \in {1, 2}
            /\ AllDigits(parts[3]) /\ Len(parts[3]) \in {1, 2}
        y == DigitsVal(parts[1], 0)
        m == DigitsVal(parts[2], 0)
        d == DigitsVal(parts[3], 0)
    IN  IF wellFormed /\ y >= 1 /\ m \in 1..12 /\ d >= 1 /\ d <= DaysInMonth(y, m)
        THEN [ok |-> TRUE, day |-> Ordinal(y, m, d)]
        ELSE [ok |-> FALSE, day |-> 0]

\* days_left(iso_date), in ticks, with `now` the clock reading of its
\* datetime.now() call.
\* days_left without the except branch's sentinel: a date that does not parse
\* counts as expiring now.
DaysLeftUnparsedAsNow(iso_date, now) ==
    IF ~Truthy(iso_date) THEN SentinelDays * TicksPerDay
    ELSE LET dt == Strptime(iso_date.s)
         IN  IF ~dt.ok THEN 0
             ELSE (dt.day - now.day) * TicksPerDay - now.tick

DaysLeft(iso_date, now) ==
    IF ~Truthy(iso_date) THEN SentinelDays * TicksPerDay
    ELSE LET dt == Strptime(iso_date.s)
         IN  IF ~dt.ok THEN SentinelDays * TicksPerDay
             ELSE (dt.day - now.day) * TicksPerDay - now.tick

(***************************************************************************)
(* rank_ingredients                                                        *)
(*                                                                         *)
(* A priority is the exact rational (w / WeightScale) * (TicksPerDay / x): *)
(* x is max(days_left, 0.25) in ticks and w the product of the factors     *)
(* applied, scaled by the product of their denominators.  Python computes  *)
(* the same products in binary floating point, which orders two priorities *)
(* as their exact values do unless the exact values are equal; on the      *)
(* pantries ranked below two items of one ranking have equal exact         *)
(* priorities only when they have the same x and the same factors, and     *)
(* then their floating-point priorities are equal too.                     *)
(***************************************************************************)
WeightScale == 5 * 20 * 5 * 5 * 5

\* 1.2, 0.15 and 0.4 as fractions.
PerishableBoost == [p |-> 6, q |-> 5]
NonVegPenalty == [p |-> 3, q |-> 20]
EggsPenalty == [p |-> 2, q |-> 5]
DairyPenalty == [p |-> 2, q |-> 5]
VeganDairyPenalty == [p |-> 2, q |-> 5]

\* 0.25 days, in ticks.
FloorTicks == TicksPerDay \div 4

\* Without the 0.25 floor: 1.0 / dleft.
BasePriorityNoFloor(dleft) == [w |-> WeightScale, x |-> dleft]

\* prio = 1.0 / max(dleft, 0.25)
BasePriority(dleft) == [w |-> WeightScale, x |-> Max(dleft, FloorTicks)]

\* prio *= f
Times(prio, f) == [prio EXCEPT !.w = (prio.w * f.p) \div f.q]

PrioLess(a, b) == a.w * b.x < b.w * a.x
PrioEq(a, b) == a.w * b.x = b.w * a.x

Dairy == <<"d", "a", "i", "r", "y">>
Protein == <<"p", "r", "o", "t", "e", "i", "n">>
Veg == <<"v", "e", "g">>
Vegetable == <<"v", "e", "g", "e", "t", "a", "b", "l", "e">>
Fruit == <<"f", "r", "u", "i", "t">>
Grain == <<"g", "r", "a", "i", "n">>
NonVeg == <<"n", "o", "n", "-", "v", "e", "g">>
EggsOk == <<"e", "g", "g", "s", "-", "o", "k">>
Vegan == <<"v", "e", "g", "a", "n">>
Unknown == <<"u", "n", "k", "n", "o", "w", "n">>
NoDiet == <<"n", "o", "n", "e">>

Perishable == {Dairy, Protein, Veg, Vegetable, Fruit}

\* cat = (it.get("category") or "").lower()
ItemCategory(it) == Lower(PyOr(Get(it, "category"), JStr(<<>>)).s)

\* it_diet = (it.get("diet_type") or "unknown").lower()
ItemDiet(it) == Lower(PyOr(Get(it, "diet_type"), JStr(Unknown)).s)

\* The priority the web app gives one item (app_recipes.py).
WebPriority(it, dleft, flags) ==
    LET cat == ItemCategory(it)
        it_diet == ItemDiet(it)
        p0 == BasePriority(dleft)
        p1 == IF cat \in Perishable THEN Times(p0, PerishableBoost) ELSE p0
        p2 == IF flags.exclude_non_veg /\ it_diet = NonVeg THEN Times(p1, NonVegPenalty) ELSE p1
        p3 == IF flags.exclude_eggs /\ it_diet = EggsOk THEN Times(p2, EggsPenalty) ELSE p2
        p4 == IF flags.exclude_dairy /\ cat = Dairy THEN Times(p3, DairyPenalty) ELSE p3
        p5 == IF flags.selected_diet = Vegan /\ cat = Dairy THEN Times(p4, VeganDairyPenalty) ELSE p4
    IN  p5

\* The priority the command line gives one item (gen_recipes_cli.py).
CliPriority(it, dleft) ==
    LET cat == ItemCategory(it)
        p0 == BasePriority(dleft)
    IN  IF cat \in Perishable THEN Times(p0, PerishableBoost) ELSE p0

\* {**it, "_days_left": dleft, "_priority": prio}
Augment(it, dleft, prio) ==
    [k \in DOMAIN it \cup {"_days_left", "_priority"} |->
        IF k = "_days_left" THEN dleft
        ELSE IF k = "_priority" THEN prio
        ELSE it[k]]

\* Code points in increasing order, for str comparison.
CodePoints == <<" ", "-", "A", "B", "C", "a", "b", "c", "d", "e">>
CodePoint(c) == CHOOSE i \in 1..Len(CodePoints) : CodePoints[i] = c

RECURSIVE StrLess(_, _)
StrLess(a, b) ==
    IF b = <<>> THEN FALSE
    ELSE IF a = <<>> THEN TRUE
    ELSE IF Head(a) = Head(b) THEN StrLess(Tail(a), Tail(b))
    ELSE CodePoint(Head(a)) < CodePoint(Head(b))

\* key=lambda x: (-x["_priority"], x["name"])
KeyLess(a, b) ==
    \/ PrioLess(b["_priority"], a["_priority"])
    \/ PrioEq(a["_priority"], b["_priority"]) /\ StrLess(a.name, b.name)

\* list.sort is stable: an element goes behind every element not after it.
RECURSIVE InsertSorted(_, _)
InsertSorted(sorted, e) ==
    IF sorted = <<>> THEN <<e>>
    ELSE IF KeyLess(e, Head(sorted)) THEN <<e>> \o sorted
    ELSE <<Head(sorted)>> \o InsertSorted(Tail(sorted), e)

RECURSIVE SortRanked(_, _)
SortRanked(todo, sorted) ==
    IF todo = <<>> THEN sorted
    ELSE SortRanked(Tail(todo), InsertSorted(sorted, Head(todo)))

\* rank_ingredients of app_recipes.py; clock[i] is what datetime.now() returns
\* in the days_left call for items[i].
RankIngredients(items, flags, clock) ==
    SortRanked([i \in 1..Len(items) |->
                   LET dleft == DaysLeft(Get(items[i], "expires_on"), clock[i])
                   IN  Augment(items[i], dleft, WebPriority(items[i], dleft, flags))],
               <<>>)

\* rank_ingredients of gen_recipes_cli.py
RankIngredientsCli(items, clock) ==
    SortRanked([i \in 1..Len(items) |->
                   LET dleft == DaysLeft(Get(items[i], "expires_on"), clock[i])
                   IN  Augment(items[i], dleft, CliPriority(items[i], dleft))],
               <<>>)

\* list_ingredients hands the web app its rows by ascending name (ORDER BY
\* name ASC, names being unique); fetch_ingredients of the command line has no
\* ORDER BY and hands them over in any order.
OrderedByName(items) ==
    \A i, j \in 1..Len(items) : i < j => StrLess(items[i].name, items[j].name)

RankWeb ==
    /\ call.op = "pantry"
    /\ OrderedByName(call.items)
    /\ call' = [call EXCEPT !.op = "rank_ingredients"]
    /\ result' = [raised |-> FALSE,
                  ranked |-> RankIngredients(call.items, call.flags, call.clock)]
    /\ UNCHANGED <<conns, ingredients, history, schema, session>>

RankCli ==
    /\ call.op = "pantry"
    /\ call' = [call EXCEPT !.op = "rank_ingredients_cli"]
    /\ result' = [raised |-> FALSE,
                  ranked |-> RankIngredientsCli(call.items, call.clock)]
    /\ UNCHANGED <<conns, ingredients, history, schema, session>>

(***************************************************************************)
(* snapshot_block and build_ranked_block                                   *)
(***************************************************************************)
DefaultLimit == 14

\* round(num / den, 0) as Python rounds: to the nearest, halves to the even.
RoundHalfEven(num, den) ==
    LET q == num \div den
        r == num % den
    IN  IF 2 * r < den THEN q
        ELSE IF 2 * r > den THEN q + 1
        ELSE IF q % 2 = 0 THEN q ELSE q + 1

\* ranked[:limit]
SliceTo(ranked, limit) ==
    IF limit >= 0 THEN SubSeq(ranked, 1, Min(Len(ranked), limit))
    ELSE SubSeq(ranked, 1, Max(0, Len(ranked) + limit))

\* One line f"{i}. {name} {qty}{unit} | exp ~ {d}d | prio={p}": its fields,
\* d = round(_days_left, 1) in tenths of a day and p = round(_priority, 2)
\* in hundredths, both of the exact values.
SnapshotLine(i, it) ==
    [index |-> i, name |-> it.name, qty |-> it.qty, unit |-> it.unit,
     days |-> RoundHalfEven(10 * it["_days_left"], TicksPerDay),
     prio |-> RoundHalfEven(100 * TicksPerDay * it["_priority"].w,
                            WeightScale * it["_priority"].x)]

\* "\n".join(lines) if lines else "(empty)"
JoinOrPlaceholder(lines) == [placeholder |-> lines = <<>>, lines |-> lines]

\* snapshot_block numbering its lines from 0.
SnapshotBlockFromZero(ranked, limit) ==
    LET top == SliceTo(ranked, limit)
    IN  JoinOrPlaceholder([i \in 1..Len(top) |-> SnapshotLine(i - 1, top[i])])

\* snapshot_block(ranked, limit) of app_recipes.py
SnapshotBlock(ranked, limit) ==
    LET top == SliceTo(ranked, limit)
    IN  JoinOrPlaceholder([i \in 1..Len(top) |-> SnapshotLine(i, top[i])])

\* build_ranked_block(ranked, limit) of gen_recipes_cli.py
BuildRankedBlock(ranked, limit) ==
    LET top == SliceTo(ranked, limit)
    IN  JoinOrPlaceholder([i \in 1..Len(top) |-> SnapshotLine(i, top[i])])

SnapshotWeb(limit) ==
    /\ call.op = "rank_ingredients"
    /\ call' = [op |-> "snapshot_block", ranked |-> result.ranked, limit |-> limit]
    /\ result' = [raised |-> FALSE, text |-> SnapshotBlock(result.ranked, limit)]
    /\ UNCHANGED <<conns, ingredients, history, schema, session>>

SnapshotCli(limit) ==
    /\ call.op = "rank_ingredients_cli"
    /\ call' = [op |-> "build_ranked_block", ranked |-> result.ranked, limit |-> limit]
    /\ result' = [raised |-> FALSE, text |-> BuildRankedBlock(result.ranked, limit)]
    /\ UNCHANGED <<conns, ingredients, history, schema, session>>

(***************************************************************************)
(* guess_category and guess_diet_type                                      *)
(***************************************************************************)
\* k in n
Contains(n, k) ==
    \E i \in 0..(Len(n) - Len(k)) : SubSeq(n, i + 1, i + Len(k)) = k

\* any(k in n for k in keys)
AnyIn(keys, n) == \E k \in keys : Contains(n, k)

Egg == <<"e", "g", "g">>
Condiment == <<"c", "o", "n", "d", "i", "m", "e", "n", "t">>
Other == <<"o", "t", "h", "e", "r">>

CategoryNonVegWords ==
    { <<"c", "h", "i", "c", "k", "e", "n">>,
      <<"m", "u", "t", "t", "o", "n">>, <<"g", "o", "a", "t">>,
      <<"l", "a", "m", "b">>, <<"b", "e", "e", "f">>, <<"p", "o", "r", "k">>,
      <<"f", "i", "s", "h">>, <<"p", "r", "a", "w", "n">>,
      <<"s", "h", "r", "i", "m", "p">>,
      <<"s", "e", "a", "f", "o", "o", "d">>,
      <<"t", "u", "r", "k", "e", "y">>, <<"b", "a", "c", "o", "n">>,
      <<"s", "a", "u", "s", "a", "g", "e">> }

DairyWords ==
    { <<"m", "i", "l", "k">>, <<"p", "a", "n", "e", "e", "r">>,
      <<"c", "h", "e", "e", "s", "e">>, <<"y", "o", "g", "u", "r", "t">>,
      <<"c", "u", "r", "d">>, <<"b", "u", "t", "t", "e", "r">>,
      <<"g", "h", "e", "e">>, <<"c", "r", "e", "a", "m">> }

VegWords ==
    { <<"t", "o", "m", "a", "t", "o">>, <<"o", "n", "i", "o", "n">>,
      <<"p", "o", "t", "a", "t", "o">>, <<"c", "a", "r", "r", "o", "t">>,
      <<"s", "p", "i", "n", "a", "c", "h">>,
      <<"c", "a", "p", "s", "i", "c", "u", "m">>,
      <<"p", "e", "p", "p", "e", "r">>,
      <<"c", "u", "c", "u", "m", "b", "e", "r">>,
      <<"c", "a", "b", "b", "a", "g", "e">>,
      <<"c", "a", "u", "l", "i", "f", "l", "o", "w", "e", "r">>,
      <<"b", "r", "o", "c", "c", "o", "l", "i">>, <<"o", "k", "r", "a">>,
      <<"b", "h", "i", "n", "d", "i">>,
      <<"b", "r", "i", "n", "j", "a", "l">>,
      <<"e", "g", "g", "p", "l", "a", "n", "t">> }

FruitWords ==
    { <<"b", "a", "n", "a", "n", "a">>, <<"a", "p", "p", "l", "e">>,
      <<"m", "a", "n", "g", "o">>, <<"o", "r", "a", "n", "g", "e">>,
      <<"g", "r", "a", "p", "e">>, <<"b", "e", "r", "r", "i", "e", "s">>,
      <<"s", "t", "r", "a", "w", "b", "e", "r", "r", "y">>,
      <<"p", "i", "n", "e", "a", "p", "p", "l", "e">>,
      <<"p", "e", "a", "r">>, <<"p", "a", "p", "a", "y", "a">> }

GrainWords ==
    { <<"r", "i", "c", "e">>, <<"f", "l", "o", "u", "r">>,
      <<"a", "t", "t", "a">>, <<"w", "h", "e", "a", "t">>,
      <<"m", "a", "i", "d", "a">>, <<"b", "r", "e", "a", "d">>,
      <<"p", "a", "s", "t", "a">>, <<"n", "o", "o", "d", "l", "e">>,
      <<"q", "u", "i", "n", "o", "a">>, <<"o", "a", "t", "s">>,
      <<"p", "o", "h", "a">>, <<"s", "u", "j", "i">>,
      <<"s", "e", "m", "o", "l", "i", "n", "a">> }

CondimentWords ==
    { <<"s", "a", "l", "t">>, <<"s", "u", "g", "a", "r">>,
      <<"k", "e", "t", "c", "h", "u", "p">>, <<"s", "a", "u", "c", "e">>,
      <<"v", "i", "n", "e", "g", "a", "r">>, <<"s", "o", "y">>,
      <<"m", "u", "s", "t", "a", "r", "d">>,
      <<"p", "i", "c", "k", "l", "e">>, <<"m", "a", "s", "a", "l", "a">>,
      <<"s", "p", "i", "c", "e">>, <<"c", "h", "i", "l", "l", "i">>,
      <<"c", "h", "i", "l", "i">>,
      <<"t", "u", "r", "m", "e", "r", "i", "c">>,
      <<"c", "u", "m", "i", "n">>,
      <<"c", "o", "r", "i", "a", "n", "d", "e", "r">>,
      <<"g", "a", "r", "a", "m">> }

DietNonVegWords ==
    { <<"c", "h", "i", "c", "k", "e", "n">>,
      <<"m", "u", "t", "t", "o", "n">>, <<"g", "o", "a", "t">>,
      <<"l", "a", "m", "b">>, <<"b", "e", "e", "f">>, <<"p", "o", "r", "k">>,
      <<"f", "i", "s", "h">>, <<"p", "r", "a", "w", "n">>,
      <<"s", "h", "r", "i", "m", "p">>,
      <<"s", "e", "a", "f", "o", "o", "d">>,
      <<"t", "u", "r", "k", "e", "y">>, <<"b", "a", "c", "o", "n">>,
      <<"s", "a", "u", "s", "a", "g", "e">>, <<"h", "a", "m">>,
      <<"s", "a", "l", "a", "m", "i">>,
      <<"a", "n", "c", "h", "o", "v", "y">>, <<"t", "u", "n", "a">> }

\* guess_category(name)
GuessCategory(name) ==
    LET n == Lower(name)
    IN  IF AnyIn(CategoryNonVegWords, n) THEN Protein
        ELSE IF Contains(n, Egg) THEN Protein
        ELSE IF AnyIn(DairyWords, n) THEN Dairy
        ELSE IF AnyIn(VegWords, n) THEN Veg
        ELSE IF AnyIn(FruitWords, n) THEN Fruit
        ELSE IF AnyIn(GrainWords, n) THEN Grain
        ELSE IF AnyIn(CondimentWords, n) THEN Condiment
        ELSE Other

\* guess_diet_type(name)
GuessDietType(name) ==
    LET n == Lower(name)
    IN  IF AnyIn(DietNonVegWords, n) THEN NonVeg
        ELSE IF Contains(n, Egg) THEN EggsOk
        ELSE Veg

\* Both guesses for one name, as parse_line_to_item makes them.
Guess ==
    /\ call.op = "name"
    /\ call' = [op |-> "guess", name |-> call.name]
    /\ result' = [raised |-> FALSE, category |-> GuessCategory(call.name),
                  diet_type |-> GuessDietType(call.name)]
    /\ UNCHANGED <<conns, ingredients, history, schema, session>>

(***************************************************************************)
(* parse_line_to_item                                                      *)
(***************************************************************************)
Digits == {"0", "1", "2", "3", "4", "5", "6", "7", "8", "9"}
Letters ==
    {UpperCase[i] : i \in 1..Len(UpperCase)} \cup {LowerCase[i] : i \in 1..Len(LowerCase)}

\* How many leading characters of s are in the set S.
RECURSIVE SpanLen(_, _)
SpanLen(s, S) ==
    IF s # <<>> /\ Head(s) \in S THEN 1 + SpanLen(Tail(s), S) ELSE 0

\* The optional group of _QTY_UNIT_RE followed by \s*$ on the rest of a
\* stripped line: \s+ , \d+(?:\.\d+)? , letters up to the end.  Every
\* alternative of the unit is a run of letters, which [a-zA-Z]+ takes first.
MatchQtyUnit(rest) ==
    LET w == SpanLen(rest, Whitespace)
        r1 == SubSeq(rest, w + 1, Len(rest))
        d == SpanLen(r1, Digits)
        r2 == SubSeq(r1, d + 1, Len(r1))
        hasFrac == Len(r2) >= 2 /\ r2[1] = "." /\ r2[2] \in Digits
        f == IF hasFrac THEN SpanLen(Tail(r2), Digits) ELSE 0
        r3 == IF hasFrac THEN SubSeq(r2, f + 2, Len(r2)) ELSE r2
    IN  [ok |-> w >= 1 /\ d >= 1 /\ r3 # <<>> /\ SpanLen(r3, Letters) = Len(r3),
         whole |-> SubSeq(r1, 1, d),
         frac |-> IF hasFrac THEN SubSeq(r2, 2, f + 1) ELSE <<>>,
         unit |-> r3]

\* _QTY_UNIT_RE.match(line) on a stripped line: the lazy name group ends at
\* the first position from which the optional group reaches the end of the
\* line, and takes the whole line when there is none.
RECURSIVE MatchLine(_, _)
MatchLine(line, p) ==
    LET tail == MatchQtyUnit(SubSeq(line, p + 1, Len(line)))
    IN  IF p >= Len(line)
        THEN [name |-> line, hasQty |-> FALSE, whole |-> <<>>, frac |-> <<>>, unit |-> <<>>]
        ELSE IF tail.ok
        THEN [name |-> SubSeq(line, 1, p), hasQty |-> TRUE, whole |-> tail.whole,
              frac |-> tail.frac, unit |-> tail.unit]
        ELSE MatchLine(line, p + 1)

\* float of digits with an optional fraction: its whole part and its
\* fraction digits, trailing zeros aside.
RECURSIVE StripZeros(_)
StripZeros(f) ==
    IF f # <<>> /\ f[Len(f)] = "0" THEN StripZeros(SubSeq(f, 1, Len(f) - 1)) ELSE f

FloatOf(whole, frac) == [whole |-> DigitsVal(whole, 0), frac |-> StripZeros(frac)]

\* s.replace(old, new)
RECURSIVE Replace(_, _, _)
Replace(s, old, new) ==
    IF Len(s) < Len(old) THEN s
    ELSE IF SubSeq(s, 1, Len(old)) = old
         THEN new \o Replace(SubSeq(s, Len(old) + 1, Len(s)), old, new)
         ELSE <<Head(s)>> \o Replace(Tail(s), old, new)

Cup == <<"c", "u", "p">>
Cups == <<"c", "u", "p", "s">>

\* unit = m.group("unit").lower().replace("cup", "cups")
UnitOf(unit) == Replace(Lower(unit), Cup, Cups)

\* date.fromordinal(n), for the years the model's clock can reach.
FromOrdinal(n) ==
    LET y == CHOOSE y \in {2025, 2026} : Ordinal(y, 1, 1) <= n /\ n <= Ordinal(y, 12, 31)
        m == CHOOSE m \in 1..12 :
                 Ordinal(y, m, 1) <= n /\ n < Ordinal(y, m, 1) + DaysInMonth(y, m)
    IN  <<y, m, n - Ordinal(y, m, 1) + 1>>

DigitChars == <<"0", "1", "2", "3", "4", "5", "6", "7", "8", "9">>

\* n as at least k decimal digits, zero-padded.
RECURSIVE Padded(_, _)
Padded(n, k) ==
    IF k <= 1 /\ n < 10 THEN <<DigitChars[n + 1]>>
    ELSE Append(Padded(n \div 10, k - 1), DigitChars[(n % 10) + 1])

\* date.isoformat()
IsoFormat(ymd) ==
    Padded(ymd[1], 4) \o <<"-">> \o Padded(ymd[2], 2) \o <<"-">> \o Padded(ymd[3], 2)

NoItem == [empty |-> TRUE]

\* parse_line_to_item(line, default_unit, default_days); today is the ordinal
\* date.today() returns.
ParseLineToItem(line, default_unit, default_days, today) ==
    LET stripped == Strip(line)
        m == MatchLine(stripped, 0)
        name == Lower(Strip(m.name))
    IN  IF stripped = <<>> THEN NoItem
        ELSE [empty |-> FALSE,
              name |-> name,
              qty |-> IF m.hasQty THEN FloatOf(m.whole, m.frac) ELSE FloatOf(<<"1">>, <<>>),
              unit |-> IF m.hasQty THEN UnitOf(m.unit) ELSE default_unit,
              category |-> GuessCategory(name),
              diet_type |-> GuessDietType(name),
              expires_on |-> IsoFormat(FromOrdinal(today + default_days))]

ParseLine ==
    /\ call.op = "line"
    /\ call' = [call EXCEPT !.op = "parse_line_to_item"]
    /\ result' = [raised |-> FALSE,
                  item |-> ParseLineToItem(call.line, call.default_unit,
                                           call.default_days, call.today)]
    /\ UNCHANGED <<conns, ingredients, history, schema, session>>

(***************************************************************************)
(* Bulk add                                                                *)
(***************************************************************************)
\* (bulk_text or "").replace(",", "\n").splitlines(), the parts that are not
\* blank, stripped.
RECURSIVE SplitParts(_, _, _)
SplitParts(text, part, done) ==
    LET closed == IF Strip(part) = <<>> THEN done ELSE Append(done, Strip(part))
    IN  IF text = <<>> THEN closed
        ELSE IF Head(text) \in {",", "\n"} THEN SplitParts(Tail(text), <<>>, closed)
        ELSE SplitParts(Tail(text), Append(part, Head(text)), done)

\* float(item["qty"]) as the row holds it: whole amounts are integers.
StoredQty(q) == IF q.frac = <<>> THEN q.whole ELSE q

\* diet_type: str = "unknown", the default of upsert_ingredient.
UpsertDietDefault == Unknown

\* An assignment  x = v  followed by the statements F that use x: v is
\* evaluated once.
With(v, F(_)) == CHOOSE out \in {F(x) : x \in {v}} : TRUE

\* The loop of the "Add all" handler, from line i on: every upsert_ingredient
\* call is its own transaction and passes name, qty, unit, category and
\* expires_on.
RECURSIVE BulkLoop(_, _, _, _, _, _, _)
BulkLoop(lines, i, rows, added, default_unit, default_days, today) ==
    IF i > Len(lines) THEN [rows |-> rows, added |-> added]
    ELSE With(ParseLineToItem(lines[i], default_unit, default_days, today),
              LAMBDA item :
                  IF item.empty
                  THEN BulkLoop(lines, i + 1, rows, added, default_unit, default_days, today)
                  ELSE BulkLoop(lines, i + 1,
                                UpsertRows(rows, item.name,
                                           Row(StoredQty(item.qty), item.unit,
                                               JStr(item.category), JStr(UpsertDietDefault),
                                               JStr(item.expires_on))),
                                Append(added, item.name),
                                default_unit, default_days, today))

\* What a click on "Add all" leaves in the table, and the names it reports.
BulkAddOutcome(rows, text, default_unit, default_days, today) ==
    With(SplitParts(text, <<>>, <<>>),
         LAMBDA lines : BulkLoop(lines, 1, rows, <<>>, default_unit, default_days, today))

\* A click on "Add all".
BulkAdd(text, default_unit, default_days, today) ==
    \E out \in {BulkAddOutcome(ingredients, text, default_unit, default_days, today)} :
        /\ ingredients' = out.rows
        /\ call' = [op |-> "bulk_add", text |-> text, default_unit |-> default_unit,
                    default_days |-> default_days, today |-> today]
        /\ result' = [raised |-> FALSE, added |-> out.added]
        /\ session' = NoSession
        /\ UNCHANGED <<conns, history, schema>>

(***************************************************************************)
(* The recipe history and the two generation runs                          *)
(***************************************************************************)
\* list_ingredients: the rows by ascending name.
RECURSIVE ListIngredients(_)
ListIngredients(rows) ==
    IF DOMAIN rows = {} THEN <<>>
    ELSE LET first == CHOOSE n \in DOMAIN rows :
                          \A o \in DOMAIN rows \ {n} : StrLess(n, o)
         IN  <<[k \in DOMAIN rows[first] \cup {"name"} |->
                   IF k = "name" THEN first ELSE rows[first][k]]>>
             \o ListIngredients(DeleteRows(rows, first))

\* The readings of datetime.now() during one ranking, taken within one tick.
ClockAt(n, day) == [i \in 1..n |-> [day |-> day, tick |-> 0]]

\* The sidebar's and the command line's defaults for time_limit, servings,
\* cuisine and num_options, with the dietary value chosen.
Params(dietary) ==
    [dietary |-> dietary, time_limit |-> 30, servings |-> 2,
     cuisine |-> <<"I", "n", "d", "i", "a", "n">>, num_options |-> 2]

\* The row save_history inserts.
HistoryEntry(params, snapshot, markdown) ==
    [dietary |-> params.dietary, time_limit |-> params.time_limit,
     servings |-> params.servings, cuisine |-> params.cuisine,
     num_options |-> params.num_options,
     ranked_snapshot |-> snapshot, result_markdown |-> markdown]

\* save_history putting its row in the place of the stored ones.
SaveHistoryOverwriting(rows, params, snapshot, markdown) ==
    <<HistoryEntry(params, snapshot, markdown)>>

\* save_history: INSERT INTO recipe_history.
SaveHistory(rows, params, snapshot, markdown) ==
    Append(rows, HistoryEntry(params, snapshot, markdown))

\* What chain.invoke does: it raises, or returns a text.
LlmRaises == [raised |-> TRUE, md |-> NoneText]
LlmReturns(toks) == [raised |-> FALSE, md |-> Text(toks)]

\* The loop over the parsed usage up to its buttons: rec.get("title") or
\* f"Recipe {idx}", rec.get("items") or [].  Iterating a dict yields its
\* keys, and a str has no get: AttributeError.
RenderUsage(usage, kind) ==
    IF kind = "dict" THEN [raised |-> TRUE, recipes |-> <<>>]
    ELSE [raised |-> FALSE,
          recipes |-> [idx \in 1..Len(usage) |->
                          [key |-> idx,
                           title |-> IF Truthy(Get(usage[idx], "title"))
                                     THEN usage[idx].title ELSE JStr(<<"R">>),
                           items |-> IF "items" \in DOMAIN usage[idx]
                                     THEN usage[idx].items ELSE <<>>]]]

ClickOn(button, key) == [button |-> button, key |-> key]

\* A run that a widget other than a button triggered.
NoClick == ClickOn("none", 0)

\* What the section shows and leaves when nothing in it ran.
Quiet(rows, hist) ==
    [rows |-> rows, hist |-> hist, recipes |-> <<>>, called_llm |-> FALSE,
     llm_returned |-> FALSE, applied |-> FALSE, message |-> "none"]

\* The statements after save_history: the parsed usage, the expander of each
\* recipe and its button, apply_usage under the button that was clicked.
AfterSave(click, rows, saved, usage) ==
    LET done == [Quiet(rows, saved) EXCEPT !.called_llm = TRUE, !.llm_returned = TRUE]
    IN  IF usage.value = <<>> THEN [done EXCEPT !.message = "No usage_json block"]
        ELSE With(RenderUsage(usage.value, usage.kind),
                  LAMBDA shown :
                      LET used == {r \in 1..Len(shown.recipes) :
                                      click = ClickOn("use", shown.recipes[r].key)}
                          applied == ApplyUsageOutcome(
                                         rows, shown.recipes[CHOOSE r \in used : TRUE].items)
                      IN  IF shown.raised THEN [done EXCEPT !.message = "LLM error"]
                          ELSE IF used = {}
                          THEN [done EXCEPT !.recipes = shown.recipes,
                                            !.message = "Recipes generated"]
                          ELSE IF applied.raised THEN [done EXCEPT !.message = "LLM error"]
                          ELSE [done EXCEPT !.rows = applied.rows, !.applied = TRUE,
                                            !.message = "Updated"])

\* The section of the script under "Generate Recipes from Pantry", run with
\* the click that triggered this run of the script: st.button(...) is True
\* for the clicked button only.  It gives the rows and the history it leaves,
\* the recipes whose buttons it rendered, and what it showed.
GenerateSection(click, rows, hist, flags, llm, day) ==
    IF click # ClickOn("generate", 0) THEN Quiet(rows, hist)
    ELSE With(ListIngredients(rows), LAMBDA listed :
         With(RankIngredients(listed, flags, ClockAt(Len(listed), day)), LAMBDA ranked :
             IF ranked = <<>>
             THEN [Quiet(rows, hist) EXCEPT !.message = "Pantry is empty"]
             ELSE IF llm.raised
             THEN [Quiet(rows, hist) EXCEPT !.called_llm = TRUE, !.message = "LLM error"]
             ELSE With(SaveHistory(hist, Params(flags.selected_diet),
                                   SnapshotBlock(ranked, DefaultLimit), llm.md),
                       LAMBDA saved :
                           With(ParseUsageFromMarkdown(llm.md),
                                LAMBDA usage : AfterSave(click, rows, saved, usage)))))

\* One run of the script with no form submitted: the click reaches only the
\* Generate section.
RunScript(click, flags, llm, day) ==
    \E out \in {GenerateSection(click, ingredients, history, flags, llm, day)} :
        /\ ingredients' = out.rows
        /\ history' = out.hist
        /\ session' = [usage |-> out.recipes]
        /\ call' = [op |-> "run_script", click |-> click, flags |-> flags]
        /\ result' = [raised |-> FALSE, called_llm |-> out.called_llm,
                      llm_returned |-> out.llm_returned, applied |-> out.applied,
                      message |-> out.message]
        /\ UNCHANGED <<conns, schema>>

\* A click on "Generate Recipes".
ClickGenerate(flags, llm, day) ==
    /\ Len(history) < MaxHistory
    /\ RunScript(ClickOn("generate", 0), flags, llm, day)

\* A click on the "Use this recipe (deduct)" button of a recipe on the page.
ClickUse(idx, flags, llm, day) ==
    /\ idx \in 1..Len(session.usage)
    /\ RunScript(ClickOn("use", session.usage[idx].key), flags, llm, day)

\* A choice in "View a previous run": the selectbox triggers a run in which
\* list_history and get_history read.
ViewHistory(hid, flags, llm, day) ==
    /\ hid \in 1..Len(history)
    /\ RunScript(NoClick, flags, llm, day)

\* The history main() of gen_recipes_cli.py leaves for the rows
\* fetch_ingredients hands over.
CliHistory(items, hist, dietary, llm, day) ==
    With(RankIngredientsCli(items, ClockAt(Len(items), day)), LAMBDA ranked :
        IF items = <<>> \/ llm.raised THEN hist
        ELSE SaveHistory(hist, Params(dietary), BuildRankedBlock(ranked, DefaultLimit),
                         llm.md))

\* main() of gen_recipes_cli.py; fetch_ingredients hands the rows over in the
\* order given.
GenerateCli(dietary, order, llm, day) ==
    \E listed \in {ListIngredients(ingredients)} :
        \E items \in {[i \in 1..Len(listed) |-> listed[order[i]]]} :
            /\ Len(history) < MaxHistory
            /\ history' = CliHistory(items, history, dietary, llm, day)
            /\ call' = [op |-> "cli", dietary |-> dietary]
            /\ result' = [raised |-> FALSE, called_llm |-> items # <<>>,
                          llm_returned |-> items # <<>> /\ ~llm.raised, applied |-> FALSE,
                          message |-> IF items = <<>> THEN "Pantry is empty"
                                      ELSE IF llm.raised THEN "LLM error"
                                      ELSE "Saved to recipe_history"]
            /\ UNCHANGED <<conns, ingredients, schema, session>>

(***************************************************************************)
(* apply_usage and upsert_ingredient on connections of their own           *)
(*                                                                         *)
(* Each Streamlit session runs the script in a thread of its own and takes *)
(* a connection from the engine's pool.  The table is InnoDB at its        *)
(* default isolation level: a plain SELECT reads the transaction's         *)
(* snapshot, taken at its first read, with the transaction's own writes on *)
(* top; an UPDATE or INSERT waits for the row lock another transaction     *)
(* holds until its commit, and then writes over the latest committed row.  *)
(* ingredients is the committed table.                                     *)
(***************************************************************************)
NoView == [taken |-> FALSE, rows |-> <<>>]
NoPending == [name |-> <<>>, old |-> 0, new |-> 0]

\* A call of apply_usage(engine, items) entering engine.begin().
ApplyCall(items) ==
    [kind |-> "apply", items |-> items, qty |-> 0, pc |-> "loop", i |-> 1,
     view |-> NoView, writes |-> <<>>, pending |-> NoPending, raised |-> FALSE]

\* A call of upsert_ingredient for the row 'a' with a new quantity.
UpsertCall(qty) ==
    [kind |-> "upsert", items |-> <<>>, qty |-> qty, pc |-> "start", i |-> 1,
     view |-> NoView, writes |-> <<>>, pending |-> NoPending, raised |-> FALSE]

\* The rows a SELECT of transaction c returns.
Seen(c, committed) ==
    LET view == IF c.view.taken THEN c.view.rows ELSE committed
    IN  [n \in DOMAIN view |->
            IF n \in DOMAIN c.writes THEN [view[n] EXCEPT !.qty = c.writes[n]]
                                     ELSE view[n]]

\* Another transaction holds the lock of the row: it wrote it and has not
\* committed.
LockedByOther(p, name) ==
    \E q \in DOMAIN conns \ {p} : name \in DOMAIN conns[q].writes

\* The loop of apply_usage up to and including the SELECT of item i; a
\* raising item leaves the with block and rolls the transaction back.
TxSelect(p) ==
    LET c == conns[p]
        name == UsageName(c.items[c.i])
        qty == UsageQty(c.items[c.i])
        rows == Seen(c, ingredients)
        read == [c EXCEPT !.view = [taken |-> TRUE, rows |-> IF c.view.taken
                                                              THEN c.view.rows
                                                              ELSE ingredients]]
    IN  /\ c.kind = "apply" /\ c.pc = "loop" /\ c.i <= Len(c.items)
        /\ conns' = [conns EXCEPT ![p] =
              IF ~name.ok \/ ~qty.ok
              THEN [c EXCEPT !.pc = "done", !.writes = <<>>, !.raised = TRUE]
              ELSE IF name.val = <<>> \/ qty.val <= 0
              THEN [c EXCEPT !.i = c.i + 1]
              ELSE IF name.val \notin DOMAIN rows
              THEN [read EXCEPT !.i = c.i + 1]
              ELSE [read EXCEPT !.pc = "update",
                                !.pending = [name |-> name.val,
                                             old |-> rows[name.val].qty,
                                             new |-> NewQty(rows[name.val].qty, qty.val)]]]
        /\ UNCHANGED <<ingredients, call, result, history, schema, session>>

\* UPDATE ingredients SET qty = :q WHERE id = :id, once the row is free.
TxUpdate(p) ==
    LET c == conns[p]
    IN  /\ c.kind = "apply" /\ c.pc = "update"
        /\ ~LockedByOther(p, c.pending.name)
        /\ conns' = [conns EXCEPT ![p] =
              [c EXCEPT !.pc = "loop", !.i = c.i + 1, !.pending = NoPending,
                        !.writes = IF c.pending.name \in DOMAIN ingredients
                                   THEN [n \in DOMAIN c.writes \cup {c.pending.name} |->
                                            IF n = c.pending.name THEN c.pending.new
                                            ELSE c.writes[n]]
                                   ELSE c.writes]]
        /\ UNCHANGED <<ingredients, call, result, history, schema, session>>

\* The end of the with block: COMMIT.
TxCommit(p) ==
    LET c == conns[p]
    IN  /\ c.kind = "apply" /\ c.pc = "loop" /\ c.i > Len(c.items)
        /\ ingredients' = [n \in DOMAIN ingredients |->
                              IF n \in DOMAIN c.writes
                              THEN [ingredients[n] EXCEPT !.qty = c.writes[n]]
                              ELSE ingredients[n]]
        /\ conns' = [conns EXCEPT ![p] = [c EXCEPT !.pc = "done", !.writes = <<>>]]
        /\ UNCHANGED <<call, result, history, schema, session>>

\* upsert_ingredient: one INSERT ... ON DUPLICATE KEY UPDATE and its commit.
TxUpsert(p, name, unit, category, diet_type, expires_on) ==
    LET c == conns[p]
    IN  /\ c.kind = "upsert" /\ c.pc = "start"
        /\ ~LockedByOther(p, Lower(Strip(name)))
        /\ ingredients' = UpsertRows(ingredients, name,
                                     Row(c.qty, unit, category, diet_type, expires_on))
        /\ conns' = [conns EXCEPT ![p] = [c EXCEPT !.pc = "done"]]
        /\ UNCHANGED <<call, result, history, schema, session>>

(***************************************************************************)
(* Inputs                                                                  *)
(***************************************************************************)
RawNames == {<<"a">>, <<" ", "A">>, <<"B", " ">>, <<" ">>}

\* What the form can send with a name: the two sample rows differ in every field.
FormFields ==
    {[unit |-> <<"p", "c", "s">>, category |-> "veg", diet_type |-> "veg",
      expires_on |-> "none"],
     [unit |-> <<"g">>, category |-> "dairy", diet_type |-> "non-veg",
      expires_on |-> "2025-10-06"]}

Item(name, qty, unit) == [name |-> name, qty |-> qty, unit |-> unit]

\* Usage items of the pantry life cycle: a partial deduction, a request above
\* any on-hand quantity, a non-positive request, and an item the LLM wrote
\* with a quantity in words.
UsageItems ==
    { Item(JStr(<<" ", "A">>), JNum(1), JStr(<<"g">>)),
      Item(JStr(<<"b">>), JNum(MaxQty + 1), JStr(<<"p", "c", "s">>)),
      Item(JStr(<<"b">>), JNum(-1), JNull),
      Item(JStr(<<" ">>), JStr(<<"t", "w", "o">>), JNull) }

\* Further shapes of one JSON object: numeric strings, bools, nulls, missing
\* keys and non-string names.
MoreUsageItems ==
    { Item(JStr(<<"b">>), JStr(<<" ", "1">>), JNull),
      Item(JStr(<<"a">>), JBool(TRUE), JNull),
      Item(JStr(<<"a">>), JNum(0), JNull),
      [name |-> JStr(<<"a">>)],
      [qty |-> JNum(1)],
      Item(JNull, JNull, JNull),
      Item(JBool(FALSE), JNum(1), JNull),
      Item(JStr(<<"a">>), JStr(<<" ">>), JNull),
      Item(JNum(5), JNum(0), JNull),
      Item(JBool(TRUE), JNum(1), JNull) }

RECURSIVE SeqsUpTo(_, _)
SeqsUpTo(S, n) ==
    IF n = 0 THEN {<<>>}
    ELSE LET shorter == SeqsUpTo(S, n - 1)
         IN  shorter \cup {Append(s, x) : s \in {t \in shorter : Len(t) = n - 1}, x \in S}

UsageLists == SeqsUpTo(UsageItems, MaxItems)
MoreUsageLists == SeqsUpTo(UsageItems \cup MoreUsageItems, MaxItems)

NoCall == [op |-> "none"]
NoResult == [raised |-> FALSE]

(***************************************************************************)
(* The pantry life cycle: the form, the delete expander, apply_usage.      *)
(***************************************************************************)
Init ==
    /\ ingredients = <<>>
    /\ call = NoCall
    /\ result = NoResult
    /\ history = <<>>
    /\ schema = WebTables
    /\ session = NoSession
    /\ conns = NoConns

Next ==
    \/ \E name \in RawNames, qty \in 0..MaxQty, f \in FormFields :
          Upsert(name, qty, f.unit, f.category, f.diet_type, f.expires_on)
    \/ \E name \in DOMAIN ingredients : Delete(name)
    \/ \E items \in UsageLists : ApplyUsage(items)

Spec == Init /\ [][Next]_vars

(***************************************************************************)
(* One apply_usage call, on every shape of usage item, from sample         *)
(* pantries.                                                               *)
(***************************************************************************)
SampleRow(q) == Row(q, <<"g">>, "veg", "veg", "none")

SamplePantries ==
    UNION { [names -> {SampleRow(q) : q \in 0..MaxQty}] :
            names \in SUBSET {<<"a">>, <<"b">>} }

InitUsage ==
    /\ ingredients \in SamplePantries
    /\ call = NoCall
    /\ result = NoResult
    /\ history = <<>>
    /\ schema = WebTables
    /\ session = NoSession
    /\ conns = NoConns

\* One call per sampled pantry.
NextUsage == call.op = "none" /\ \E items \in MoreUsageLists : ApplyUsage(items)

SpecUsage == InitUsage /\ [][NextUsage]_vars

(***************************************************************************)
(* parse_usage_from_markdown on every short text, and on None.             *)
(***************************************************************************)
MdTokens ==
    { Fence, UsageTag, <<"U", "s", "a", "g", "e", "_", "J", "S", "O", "N">>,
      <<"j", "s", "o", "n">>, Newline, RecipeDoc, <<"{", "b", "a", "d">> }

MdInputs == {NoneText} \cup {Text(t) : t \in SeqsUpTo(MdTokens, MaxMdLen)}

InitParse ==
    /\ ingredients = <<>>
    /\ call \in {[op |-> "markdown", md |-> md] : md \in MdInputs}
    /\ result = NoResult
    /\ history = <<>>
    /\ schema = WebTables
    /\ session = NoSession
    /\ conns = NoConns

NextParse == ParseUsage

SpecParse == InitParse /\ [][NextParse]_vars

(***************************************************************************)
(* rank_ingredients of the web app and of the command line on sample       *)
(* pantries, flags and clocks.                                             *)
(***************************************************************************)
Diets == {NoDiet, Veg, EggsOk, Vegan, NonVeg}

Flags(diet, nonveg, eggs, dairy) ==
    [selected_diet |-> diet, exclude_non_veg |-> nonveg,
     exclude_eggs |-> eggs, exclude_dairy |-> dairy]

AllFlags ==
    {Flags(d, n, e, y) : d \in Diets, n \in BOOLEAN, e \in BOOLEAN, y \in BOOLEAN}

\* The checkboxes as the sidebar presets them for a dietary choice.
DefaultFlags(d) == Flags(d, d \in {Veg, Vegan}, d = Vegan, d = Vegan)

\* The day of the model's clock is 2025-10-05.
ExpPast == JStr(<<"2", "0", "2", "5", "-", "0", "9", "-", "3", "0">>)
ExpToday == JStr(<<"2", "0", "2", "5", "-", "1", "0", "-", "0", "5">>)
ExpTomorrow == JStr(<<"2", "0", "2", "5", "-", "1", "0", "-", "0", "6">>)
ExpMonth == JStr(<<"2", "0", "2", "5", "-", "1", "1", "-", "0", "4">>)
ExpBad == JStr(<<"2", "0", "2", "5", "-", "0", "2", "-", "3", "0">>)
RealDates == {ExpPast, ExpToday, ExpTomorrow, ExpMonth}

ClockDay == Ordinal(2025, 10, 5)
ClockStarts == {0, 6}

\* n successive clock readings: the clock stands still or moves on one tick
\* between two readings.
RECURSIVE ClockRuns(_)
ClockRuns(n) ==
    IF n = 0 THEN {<<>>}
    ELSE IF n = 1 THEN {<<[day |-> ClockDay, tick |-> t]>> : t \in ClockStarts}
    ELSE {Append(c, [day |-> ClockDay, tick |-> c[n - 1].tick + d]) :
              c \in ClockRuns(n - 1), d \in {0, 1}}

PantryItem(name, category, diet_type, expires_on) ==
    [name |-> name, qty |-> 1, unit |-> <<"g">>, category |-> category,
     diet_type |-> diet_type, expires_on |-> expires_on]

Profiles ==
    { <<JStr(Veg), JStr(Veg), ExpTomorrow>>,
      <<JStr(Grain), JStr(Veg), JNull>>,
      <<JStr(Protein), JStr(NonVeg), ExpTomorrow>>,
      <<JStr(Dairy), JStr(Veg), ExpToday>> }

PantryNames == {<<"a">>, <<"b">>, <<"c">>}

\* Pantries of up to n rows with distinct names, in every order.
RECURSIVE PantryLists(_)
PantryLists(n) ==
    IF n = 0 THEN {<<>>}
    ELSE LET shorter == PantryLists(n - 1)
         IN  shorter \cup
             { Append(l, PantryItem(nm, pr[1], pr[2], pr[3])) :
                 l \in {t \in shorter : Len(t) = n - 1},
                 nm \in PantryNames, pr \in Profiles } 

DistinctNames(l) == \A i, j \in 1..Len(l) : i # j => l[i].name # l[j].name

OrderInputs ==
    { [op |-> "pantry", items |-> l, flags |-> DefaultFlags(d), clock |-> c] :
        l \in {t \in PantryLists(MaxRanked) : DistinctNames(t)},
        d \in Diets, c \in ClockRuns(MaxRanked) }

\* An item without a usable expiry next to one that expires within 30 days,
\* over the categories, diet tags and flags that change a priority.
PairInputs ==
    { [op |-> "pantry",
       items |-> << PantryItem(<<"a">>, JStr(c1), JStr(d1), e1),
                    PantryItem(<<"b">>, JStr(c2), JStr(d2), e2) >>,
       flags |-> f, clock |-> c] :
        c1 \in {Dairy, Grain}, d1 \in {Veg, NonVeg, EggsOk}, e1 \in {JNull, ExpBad},
        c2 \in {Dairy, Grain}, d2 \in {Veg, NonVeg, EggsOk}, e2 \in {ExpTomorrow, ExpMonth},
        f \in AllFlags, c \in ClockRuns(2) }

\* One item of every stored shape, under every setting of the sidebar.
SingleInputs ==
    { [op |-> "pantry", items |-> <<PantryItem(<<"a">>, c1, d1, e1)>>,
       flags |-> f, clock |-> c] :
        c1 \in {JStr(Dairy), JStr(<<"D", "a", "i", "r", "y">>), JStr(Protein), JStr(Grain), JNull},
        d1 \in {JStr(Veg), JStr(NonVeg), JStr(<<"N", "o", "n", "-", "V", "e", "g">>),
                JStr(EggsOk), JNull},
        e1 \in RealDates \cup {JNull, ExpBad},
        f \in AllFlags, c \in ClockRuns(1) }

InitRank ==
    /\ ingredients = <<>>
    /\ call \in OrderInputs \cup PairInputs \cup SingleInputs
    /\ result = NoResult
    /\ history = <<>>
    /\ schema = WebTables
    /\ session = NoSession
    /\ conns = NoConns

NextRank == RankWeb \/ RankCli

SpecRank == InitRank /\ [][NextRank]_vars

(***************************************************************************)
(* Ranking followed by the snapshot of the ranked list.                    *)
(***************************************************************************)
Limits == 0..MaxLimit \cup {DefaultLimit}

InitSnapshot ==
    /\ ingredients = <<>>
    /\ call \in OrderInputs
    /\ result = NoResult
    /\ history = <<>>
    /\ schema = WebTables
    /\ session = NoSession
    /\ conns = NoConns

NextSnapshot ==
    \/ RankWeb
    \/ RankCli
    \/ \E limit \in Limits : SnapshotWeb(limit)
    \/ \E limit \in Limits : SnapshotCli(limit)

SpecSnapshot == InitSnapshot /\ [][NextSnapshot]_vars

(***************************************************************************)
(* The three upsert paths on one table.                                    *)
(***************************************************************************)
UpsertNames == {CrudName, <<" ", "T", "o", "m", "a", "t", "o">>, <<"a">>, <<" ">>}

InitUpsert ==
    /\ ingredients = <<>>
    /\ call = NoCall
    /\ result = NoResult
    /\ history = <<>>
    /\ schema = WebTables
    /\ session = NoSession
    /\ conns = NoConns

NextUpsert ==
    \/ \E name \in UpsertNames, qty \in 0..MaxQty, f \in FormFields :
          Upsert(name, qty, f.unit, f.category, f.diet_type, f.expires_on)
    \/ \E name \in UpsertNames, qty \in 0..MaxQty, f \in FormFields :
          UpsertBasic(name, qty, f.unit, f.category, f.expires_on)
    \/ UpsertCrud

SpecUpsert == InitUpsert /\ [][NextUpsert]_vars

(***************************************************************************)
(* Table creation in any order from an empty database, with rows written   *)
(* in between.  A statement naming a table or a column that does not exist *)
(* is rejected by the server and changes nothing: the form of app_basic.py *)
(* and crud_test.py need the ingredients table, the form of app_recipes.py *)
(* needs its diet_type column as well.  A row of a table without that      *)
(* column carries the default tag, which no statement reads.               *)
(***************************************************************************)
InitTables ==
    /\ ingredients = <<>>
    /\ call = NoCall
    /\ result = NoResult
    /\ history = <<>>
    /\ schema = [ingredients |-> NoTable, recipe_history |-> NoTable]
    /\ session = NoSession
    /\ conns = NoConns

NextTables ==
    \/ InitDb
    \/ EnsureTablesCli
    \/ EnsureTablesWeb
    \/ /\ schema.ingredients.exists
       /\ UpsertCrud
    \/ /\ schema.ingredients.exists
       /\ \E name \in UpsertNames, qty \in 0..MaxQty, f \in FormFields :
             UpsertBasic(name, qty, f.unit, f.category, f.expires_on)
    \/ /\ "diet_type" \in schema.ingredients.columns
       /\ \E name \in UpsertNames, qty \in 0..MaxQty, f \in FormFields :
             Upsert(name, qty, f.unit, f.category, f.diet_type, f.expires_on)

SpecTables == InitTables /\ [][NextTables]_vars

(***************************************************************************)
(* The guesses on ingredient names of up to MaxWords words.                *)
(***************************************************************************)
NameWords ==
    { <<"c", "h", "i", "c", "k", "e", "n">>,
      <<"F", "i", "s", "h">>,
      <<"t", "u", "n", "a">>,
      <<"h", "a", "m">>,
      <<"s", "a", "l", "a", "m", "i">>,
      <<"e", "g", "g">>,
      <<"e", "g", "g", "p", "l", "a", "n", "t">>,
      <<"b", "u", "t", "t", "e", "r">>,
      <<"t", "o", "m", "a", "t", "o">>,
      <<"m", "a", "n", "g", "o">>,
      <<"r", "i", "c", "e">>,
      <<"s", "o", "y">>,
      <<"t", "o", "f", "u">> }

\* Names of one to n words, joined by single spaces.
RECURSIVE NamesOfWords(_)
NamesOfWords(n) ==
    IF n = 1 THEN NameWords
    ELSE LET shorter == NamesOfWords(n - 1)
         IN  shorter \cup {a \o <<" ">> \o w : a \in shorter, w \in NameWords}

InitGuess ==
    /\ ingredients = <<>>
    /\ call \in {[op |-> "name", name |-> n] : n \in NamesOfWords(MaxWords)}
    /\ result = NoResult
    /\ history = <<>>
    /\ schema = WebTables
    /\ session = NoSession
    /\ conns = NoConns

NextGuess == Guess

SpecGuess == InitGuess /\ [][NextGuess]_vars

(***************************************************************************)
(* parse_line_to_item on lines put together from a name, a quantity, a gap *)
(* and a unit, and on bare names.  call.parts keeps the pieces the line    *)
(* was written from.                                                       *)
(***************************************************************************)
LineNames == { <<"p", "a", "n", "e", "e", "r">>, <<"c", "h", "i", "c", "k", "e", "n", " ", "b", "r", "e", "a", "s", "t">>, <<"E", "g", "g", "s">> }
LineQtys == { [text |-> <<"6">>, value |-> [whole |-> 6, frac |-> <<>>]],
              [text |-> <<"2", "0", "0">>, value |-> [whole |-> 200, frac |-> <<>>]],
              [text |-> <<"2", ".", "0">>, value |-> [whole |-> 2, frac |-> <<>>]],
              [text |-> <<"1", ".", "5">>, value |-> [whole |-> 1, frac |-> <<"5">>]] }
LineGaps == {<<>>, <<" ">>}
LineUnits == { <<"g">>, <<"p", "c", "s">>, <<"K", "G">>, <<"m", "l">>, <<"c", "u", "p">> }
DefaultUnits == { <<"p", "c", "s">> }
DefaultDays == {0, 3, 60}

LineInputs ==
    { [op |-> "line", line |-> n \o <<" ">> \o q.text \o gap \o u,
       parts |-> [bare |-> FALSE, name |-> n, qty |-> q.value, gap |-> gap, unit |-> u],
       default_unit |-> du, default_days |-> dd, today |-> ClockDay] :
        n \in LineNames, q \in LineQtys, gap \in LineGaps, u \in LineUnits,
        du \in DefaultUnits, dd \in DefaultDays }
    \cup
    { [op |-> "line", line |-> pad \o n \o pad,
       parts |-> [bare |-> TRUE, name |-> n, qty |-> [whole |-> 1, frac |-> <<>>], gap |-> <<>>, unit |-> du],
       default_unit |-> du, default_days |-> dd, today |-> ClockDay] :
        n \in LineNames, pad \in LineGaps, du \in DefaultUnits, dd \in DefaultDays }

InitLine ==
    /\ ingredients = <<>>
    /\ call \in LineInputs
    /\ result = NoResult
    /\ history = <<>>
    /\ schema = WebTables
    /\ session = NoSession
    /\ conns = NoConns

NextLine == ParseLine

SpecLine == InitLine /\ [][NextLine]_vars

(***************************************************************************)
(* Bulk add of texts of one or two lines.                                  *)
(***************************************************************************)
BulkLines ==
    { <<"c", "h", "i", "c", "k", "e", "n", " ", "5", "0", "0", "g">>,
      <<"C", "h", "i", "c", "k", "e", "n", " ", "2", "k", "g">>,
      <<"t", "o", "m", "a", "t", "o">>,
      <<"E", "g", "g", "s", " ", "6", "p", "c", "s">>,
      <<" ">> }

\* The widgets' initial values: st.text_input("Default unit", value="pcs") and
\* st.number_input("Default days until expiry", value=3).
BulkDefaultUnit == <<"p", "c", "s">>
BulkDefaultDays == 3

\* One line, or two lines joined by a comma or a newline.
BulkTexts ==
    BulkLines \cup {a \o sep \o b : a \in BulkLines, sep \in {<<",">>, <<"\n">>},
                                    b \in BulkLines}

InitBulk ==
    /\ ingredients = <<>>
    /\ call = NoCall
    /\ result = NoResult
    /\ history = <<>>
    /\ schema = WebTables
    /\ session = NoSession
    /\ conns = NoConns

NextBulk ==
    \E text \in BulkTexts :
        BulkAdd(text, BulkDefaultUnit, BulkDefaultDays, ClockDay)

SpecBulk == InitBulk /\ [][NextBulk]_vars

(***************************************************************************)
(* Properties of apply_usage                                               *)
(***************************************************************************)
Range(f) == {f[i] : i \in DOMAIN f}

IsUsageCall == call.op = "apply_usage"

\* The item passes both parses and the `if not name or qty <= 0` test.
ValidItem(it) ==
    /\ UsageName(it).ok /\ UsageQty(it).ok
    /\ UsageName(it).val # <<>>
    /\ UsageQty(it).val > 0

\* Indices of the valid items that name a row of the table.
MatchedIdx(items, rows) ==
    {i \in 1..Len(items) : ValidItem(items[i]) /\ UsageName(items[i]).val \in DOMAIN rows}

\* Indices of the valid items that name no row of the table.
MissingIdx(items, rows) ==
    {i \in 1..Len(items) : ValidItem(items[i]) /\ UsageName(items[i]).val \notin DOMAIN rows}

\* The k-th smallest element of a finite set of naturals.
RECURSIVE Nth(_, _)
Nth(S, k) ==
    LET m == CHOOSE x \in S : \A y \in S : x <= y
    IN  IF k = 1 THEN m ELSE Nth(S \ {m}, k - 1)

AllQtyNonNegative == \A n \in DOMAIN ingredients : ingredients[n].qty >= 0

\* C1: every stored quantity is >= 0 after any sequence of form saves, deletes
\* and apply_usage calls; each record apply_usage returns in `updated` has
\* new_qty = old_qty - requested when that is >= 0 and exactly 0 when the request
\* exceeds old_qty, old_qty being what the earlier items of the call left, and the
\* row ends with the new_qty of its last record.
C1_ClampedDeduction ==
    /\ AllQtyNonNegative
    /\ (IsUsageCall /\ ~result.raised) =>
          LET items == call.items
              idx == MatchedIdx(items, call.before)
              upd == result.updated
              req(k) == UsageQty(items[Nth(idx, k)]).val
              earlier(k) == {j \in 1..(k - 1) : upd[j].name = upd[k].name}
              later(k) == {j \in (k + 1)..Len(upd) : upd[j].name = upd[k].name}
          IN  /\ Len(upd) = Cardinality(idx)
              /\ \A k \in 1..Len(upd) :
                    /\ upd[k].name = UsageName(items[Nth(idx, k)]).val
                    /\ upd[k].old_qty >= req(k) => upd[k].new_qty = upd[k].old_qty - req(k)
                    /\ upd[k].old_qty < req(k) => upd[k].new_qty = 0
                    /\ upd[k].old_qty =
                          IF earlier(k) = {} THEN call.before[upd[k].name].qty
                          ELSE upd[CHOOSE j \in earlier(k) : \A h \in earlier(k) : h <= j].new_qty
                    /\ later(k) = {} => ingredients[upd[k].name].qty = upd[k].new_qty

\* C1 witness: a returned call in which a request above the on-hand quantity
\* of a stocked row left it at 0.
C1_Witness ==
    /\ IsUsageCall /\ ~result.raised
    /\ \E k \in 1..Len(result.updated) :
          LET idx == MatchedIdx(call.items, call.before)
              u == result.updated[k]
          IN  /\ u.old_qty > 0
              /\ UsageQty(call.items[Nth(idx, k)]).val > u.old_qty
              /\ u.new_qty = 0
              /\ ingredients[u.name].qty = 0

\* C2: in every apply_usage call, each valid item naming no row is reported in
\* `missing`, no row other than those named by valid matching items changes, and
\* every valid item naming a row is applied and reported in `updated`.
C2_MissingDoesNotStopBatch ==
    IsUsageCall =>
        LET items == call.items
            matchedNames == {UsageName(items[i]).val : i \in MatchedIdx(items, call.before)}
        IN  /\ \A i \in MissingIdx(items, call.before) :
                  UsageName(items[i]).val \in Range(result.missing)
            /\ \A i \in MatchedIdx(items, call.before) :
                  \E k \in 1..Len(result.updated) :
                      /\ result.updated[k].name = UsageName(items[i]).val
                      /\ result.updated[k].new_qty =
                            Max(0, result.updated[k].old_qty - UsageQty(items[i]).val)
            /\ DOMAIN ingredients = DOMAIN call.before
            /\ \A n \in DOMAIN call.before :
                  n \notin matchedNames => ingredients[n] = call.before[n]

\* An item of the class C3 describes, read off the JSON object itself: the
\* name is missing, null or blank, or the quantity is missing, null, zero or
\* negative.
BlankName(it) ==
    LET v == Get(it, "name")
    IN  v.t = "null" \/ (v.t = "str" /\ Strip(v.s) = <<>>)

NonPositiveQty(it) ==
    LET v == Get(it, "qty")
    IN  v.t = "null" \/ (v.t = "num" /\ v.n <= 0)

SkipClass(it) == BlankName(it) \/ NonPositiveQty(it)

\* C3: an item with an empty name or a zero, negative or absent quantity is
\* silently skipped: the call returns, and it returns and stores what it
\* would without that item.
C3_BlankItemsSkipped ==
    IsUsageCall =>
        LET kept == SelectSeq(call.items, LAMBDA it : ~SkipClass(it))
            without == ApplyUsageOutcome(call.before, kept)
        IN  (kept # call.items) =>
                /\ ~result.raised
                /\ result.updated = without.updated
                /\ result.missing = without.missing
                /\ ingredients = without.rows

\* C4: apply_usage completes without raising on every list of JSON objects.
C4_NeverRaises == IsUsageCall => ~result.raised

(***************************************************************************)
(* Properties of parse_usage_from_markdown                                 *)
(***************************************************************************)
IsParseCall == call.op = "parse_usage_from_markdown"

MdText == IF call.md.isNone THEN <<>> ELSE call.md.toks

\* Positions where a usage_json block opens: a fence, the tag right after it
\* in any letter case, and a fence somewhere behind the tag.
BlockOpenings(t) ==
    {i \in 1..Len(t) :
        /\ t[i] = Fence
        /\ i + 1 <= Len(t) /\ Lower(t[i + 1]) = UsageTag
        /\ \E j \in (i + 2)..Len(t) : t[j] = Fence}

\* The text between the tag of the first block and the fence that closes it.
FirstBlockBody(t) ==
    LET i == CHOOSE a \in BlockOpenings(t) : \A b \in BlockOpenings(t) : a <= b
        closings == {j \in (i + 2)..Len(t) : t[j] = Fence}
        j == CHOOSE a \in closings : \A b \in closings : a <= b
    IN  SubSeq(t, i + 2, j - 1)

\* Whitespace aside, the text is not one JSON document.
InvalidJson(toks) ==
    LET solid == SelectSeq(toks, LAMBDA tok : ~IsSpace(tok))
    IN  solid # <<RecipeDoc>>

\* C5: parse_usage_from_markdown never raises, and returns the empty list when
\* the text (None counts as empty) has no block tagged usage_json in any letter
\* case, or when the first such block does not hold valid JSON.
C5_ParseNeverRaises ==
    IsParseCall =>
        /\ ~result.raised
        /\ BlockOpenings(MdText) = {} => result.value = <<>>
        /\ (BlockOpenings(MdText) # {} /\ InvalidJson(FirstBlockBody(MdText)))
              => result.value = <<>>

\* C5 witness: a text whose first usage_json block, tagged in capitals, holds
\* something that is not valid JSON; the call returned [].
C5_Witness ==
    /\ IsParseCall /\ ~result.raised /\ result.value = <<>>
    /\ BlockOpenings(MdText) # {}
    /\ \E i \in BlockOpenings(MdText) : MdText[i + 1] # UsageTag
    /\ InvalidJson(FirstBlockBody(MdText))
    /\ FirstBlockBody(MdText) # <<>>

(***************************************************************************)
(* Properties of rank_ingredients                                          *)
(***************************************************************************)
IsRankCall == call.op \in {"rank_ingredients", "rank_ingredients_cli"}
IsWebRankCall == call.op = "rank_ingredients"

Reorderings(n) == {f \in [1..n -> 1..n] : \A i, j \in 1..n : i # j => f[i] # f[j]}

Original(r) == [k \in DOMAIN r \ {"_days_left", "_priority"} |-> r[k]]

NamesOf(l) == [i \in 1..Len(l) |-> l[i].name]

\* The ranking the call in hand computes for a pantry.
RankAgain(items) ==
    IF IsWebRankCall THEN RankIngredients(items, call.flags, call.clock)
    ELSE RankIngredientsCli(items, call.clock)

RankedIsPermutation ==
    IsRankCall =>
        /\ Len(result.ranked) = Len(call.items)
        /\ \E f \in Reorderings(Len(call.items)) :
               \A i \in 1..Len(call.items) :
                   /\ {"_days_left", "_priority"} \subseteq DOMAIN result.ranked[i]
                   /\ Original(result.ranked[i]) = call.items[f[i]]

RankedIsSorted ==
    IsRankCall =>
        \A i \in 1..(Len(result.ranked) - 1) :
            LET a == result.ranked[i]
                b == result.ranked[i + 1]
            IN  /\ ~PrioLess(a["_priority"], b["_priority"])
                /\ PrioEq(a["_priority"], b["_priority"]) => StrLess(a.name, b.name)

RankedOrderIndependent ==
    IsRankCall =>
        \A f \in Reorderings(Len(call.items)) :
            NamesOf(RankAgain([i \in 1..Len(call.items) |-> call.items[f[i]]]))
                = NamesOf(result.ranked)

\* C6: rank_ingredients returns a permutation of its input, every item
\* augmented with days-left and priority, sorted by descending priority with
\* ties broken by ascending name; and, names being unique, the order of the
\* result is the same for every ordering of the input list.
C6_RankingIsOrderIndependent ==
    /\ RankedIsPermutation
    /\ RankedIsSorted
    /\ RankedOrderIndependent

HasRealExpiry(it) == Get(it, "expires_on") \in RealDates

\* C7: an ingredient with no expiry date or an unparseable one gets the
\* sentinel 9999 as days_left, ranking does not fail on it, and its priority is
\* strictly below that of every item of the same ranking whose real expiry is
\* at most 30 days away, whatever the categories, diet tags and flags.
C7_SentinelRanksBelowNearTerm ==
    IsRankCall =>
        /\ ~result.raised
        /\ Len(result.ranked) = Len(call.items)
        /\ \A i \in 1..Len(result.ranked) :
               LET s == result.ranked[i]
               IN  ~HasRealExpiry(s) =>
                       /\ s["_days_left"] = 9999 * TicksPerDay
                       /\ \A j \in 1..Len(result.ranked) :
                              LET n == result.ranked[j]
                              IN  HasRealExpiry(n) /\ n["_days_left"] <= 30 * TicksPerDay
                                      => PrioLess(s["_priority"], n["_priority"])

\* An unparseable date on a boosted, unpenalised item, ranked with a dairy
\* item 30 days from its expiry that carries every penalty.
C7_Witness ==
    /\ IsWebRankCall
    /\ call.flags = Flags(Vegan, TRUE, TRUE, TRUE)
    /\ \E i, j \in 1..Len(result.ranked) :
           LET s == result.ranked[i]
               n == result.ranked[j]
           IN  /\ Get(s, "expires_on") = ExpBad
               /\ s["_priority"].w >= WeightScale
               /\ Get(n, "expires_on") = ExpMonth
               /\ n["_days_left"] = 30 * TicksPerDay
               /\ ItemCategory(n) = Dairy
               /\ ItemDiet(n) = NonVeg

\* C8: the base priority is 1 / max(days_left, 0.25).  The factors applied
\* afterwards change only the weight w of a priority, so the base priority of
\* a ranked item is TicksPerDay / x for the x of its priority: it is defined
\* and positive, at most 4, exactly 4 for every item with days_left <= 0, and
\* 1 / days_left from 0.25 days on.
C8_BasePriorityFloored ==
    IsRankCall =>
        \A i \in 1..Len(result.ranked) :
            LET d == result.ranked[i]["_days_left"]
                x == result.ranked[i]["_priority"].x
            IN  /\ x > 0
                /\ TicksPerDay <= 4 * x
                /\ d <= 0 => TicksPerDay = 4 * x
                /\ 4 * d >= TicksPerDay => x = d
                /\ 4 * d < TicksPerDay => TicksPerDay = 4 * x

\* An item expiring this instant and one already expired, ranked together.
C8_Witness ==
    /\ IsRankCall
    /\ \E i, j \in 1..Len(result.ranked) :
           /\ result.ranked[i]["_days_left"] = 0
           /\ result.ranked[j]["_days_left"] < 0
           /\ result.ranked[i]["_priority"].x = result.ranked[j]["_priority"].x

\* C9: in the web app the priority of an item is its base priority, times 1.2
\* for a perishable category, times 0.15 when non-veg is excluded and the item
\* is tagged non-veg, times 0.4 when eggs are excluded and the item is tagged
\* eggs-ok, and times 0.4 once for a dairy item when dairy is excluded or the
\* selected diet is vegan; nothing else is penalised.
C9_DietPenalties ==
    IsWebRankCall =>
        \A i \in 1..Len(result.ranked) :
            LET r == result.ranked[i]
                cat == ItemCategory(r)
                diet == ItemDiet(r)
                base == [w |-> WeightScale, x |-> r["_priority"].x]
                b == IF cat \in Perishable THEN Times(base, PerishableBoost) ELSE base
                n == IF call.flags.exclude_non_veg /\ diet = NonVeg
                     THEN Times(b, [p |-> 3, q |-> 20]) ELSE b
                e == IF call.flags.exclude_eggs /\ diet = EggsOk
                     THEN Times(n, [p |-> 2, q |-> 5]) ELSE n
                y == IF cat = Dairy /\ (call.flags.exclude_dairy \/ call.flags.selected_diet = Vegan)
                     THEN Times(e, [p |-> 2, q |-> 5]) ELSE e
            IN  r["_priority"] = y

(***************************************************************************)
(* Properties of snapshot_block and build_ranked_block                     *)
(***************************************************************************)
IsSnapshotCall == call.op \in {"snapshot_block", "build_ranked_block"}

\* C10: for limit >= 0 the block has exactly min(len(ranked), limit) lines,
\* line i numbered i and describing the i-th ranked item; an empty ranked
\* list gives the placeholder "(empty)"; the text is the one both functions
\* compute from the ranked list and the limit alone.
C10_SnapshotLines ==
    IsSnapshotCall /\ call.limit >= 0 =>
        LET lines == result.text.lines
            n == IF Len(call.ranked) < call.limit THEN Len(call.ranked) ELSE call.limit
        IN  /\ ~result.raised
            /\ Len(lines) = n
            /\ \A i \in 1..n :
                   /\ lines[i].index = i
                   /\ lines[i].name = call.ranked[i].name
                   /\ lines[i].qty = call.ranked[i].qty
                   /\ lines[i].unit = call.ranked[i].unit
            /\ call.ranked = <<>> => result.text.placeholder
            /\ result.text.placeholder => lines = <<>>
            /\ result.text = SnapshotBlock(call.ranked, call.limit)
            /\ result.text = BuildRankedBlock(call.ranked, call.limit)

\* A ranked list cut short by the limit.
C10_Witness ==
    /\ IsSnapshotCall
    /\ call.limit >= 1
    /\ Len(call.ranked) > call.limit
    /\ Len(result.text.lines) = call.limit
    /\ ~result.text.placeholder

(***************************************************************************)
(* apply_usage on a concatenation                                          *)
(***************************************************************************)
\* What a call on xs followed by a call on ys leaves and reports.
TwoCalls(rows, xs, ys) ==
    LET first == ApplyUsageOutcome(rows, xs)
        second == ApplyUsageOutcome(first.rows, ys)
    IN  [rows |-> second.rows,
         updated |-> first.updated \o second.updated,
         missing |-> first.missing \o second.missing]

\* C20: for every split of the items of one call into xs followed by ys, the
\* call leaves the store as a call on xs followed by a call on ys does, and
\* reports the same updated and missing entries in the same order; two items
\* naming one ingredient deduct one after the other, clamped at 0.
C20_ConcatenationIsSequence ==
    IsUsageCall =>
        \A k \in 0..Len(call.items) :
            LET two == TwoCalls(call.before,
                                SubSeq(call.items, 1, k),
                                SubSeq(call.items, k + 1, Len(call.items)))
            IN  /\ ingredients = two.rows
                /\ result.updated = two.updated
                /\ result.missing = two.missing

(***************************************************************************)
(* Properties of the upsert paths                                          *)
(***************************************************************************)
IsUpsertCall == call.op \in {"upsert", "upsert_basic", "upsert_crud"}

\* The row the same call stores for its name in a table without that name.
FreshRow ==
    LET key == Lower(Strip(call.name))
    IN  IF call.op = "upsert" THEN UpsertRows(<<>>, key, call.row)[key]
        ELSE UpsertBasicRows(<<>>, key, call.row.qty, call.row.unit,
                             call.row.category, call.row.expires_on)[key]

\* C11: after an upsert through any of the three paths the table has one row
\* for the stripped, lower-cased name; every field the call passed has the new
\* value; and nothing of the previous row survives, the row being the one the
\* same call stores when the name is new.
C11_UpsertOverwritesEveryField ==
    IsUpsertCall /\ result.saved =>
        LET key == Lower(Strip(call.name))
        IN  /\ key \in DOMAIN ingredients
            /\ \A f \in DOMAIN call.row : ingredients[key][f] = call.row[f]
            /\ ingredients[key] = FreshRow

(***************************************************************************)
(* Properties of table creation                                            *)
(***************************************************************************)
IsCreateCall == call.op \in {"init_db", "ensure_tables_cli", "ensure_tables_web"}

\* C14: after the table-creation step of any entry point, run any number of
\* times and in any order, both tables exist, the ingredients table has the
\* one schema with the diet_type column the web app reads and writes, tables
\* that existed keep their columns, and no row has changed.
C14_TableCreationIdempotent ==
    IsCreateCall =>
        /\ schema.ingredients.exists
        /\ schema.recipe_history.exists
        /\ schema.ingredients.columns = WebIngredientsColumns
        /\ schema.recipe_history.columns = HistoryColumns
        /\ call.tables.ingredients.exists => schema.ingredients = call.tables.ingredients
        /\ call.tables.recipe_history.exists => schema.recipe_history = call.tables.recipe_history
        /\ ingredients = call.before

(***************************************************************************)
(* Properties of the guesses                                               *)
(***************************************************************************)
IsGuessCall == call.op = "guess"

\* C15: a name whose guessed diet tag is non-veg has the guessed category
\* protein.
C15_NonVegIsProtein ==
    IsGuessCall => (result.diet_type = NonVeg => result.category = Protein)

(***************************************************************************)
(* Properties of parse_line_to_item                                        *)
(***************************************************************************)
IsLineCall == call.op = "parse_line_to_item"

\* C16: a line written as name, quantity and unit, with or without a space
\* between quantity and unit, yields that name in lower case, that quantity
\* and that unit in lower case; a bare name yields quantity 1 and the default
\* unit; the name holds neither the quantity nor the unit.
C16_LineFormsAccepted ==
    IsLineCall =>
        /\ ~result.raised
        /\ ~result.item.empty
        /\ result.item.name = Lower(call.parts.name)
        /\ result.item.qty = call.parts.qty
        /\ result.item.unit = IF call.parts.bare THEN call.default_unit
                              ELSE Lower(call.parts.unit)

(***************************************************************************)
(* Properties of bulk add                                                  *)
(***************************************************************************)
IsBulkCall == call.op = "bulk_add"

\* The items parse_line_to_item returns for the lines of the call, in order.
ParsedItems ==
    LET lines == SplitParts(call.text, <<>>, <<>>)
    IN  [i \in 1..Len(lines) |->
            ParseLineToItem(lines[i], call.default_unit, call.default_days, call.today)]

\* C19: after bulk add, for every parsed line (the last one of its name) the
\* stored row has the quantity, unit, category, diet tag and expiry of the
\* item parse_line_to_item returned, so its diet tag is guess_diet_type(name).
C19_BulkAddStoresParsedItem ==
    IsBulkCall =>
        \A i \in 1..Len(ParsedItems) :
            LET item == ParsedItems[i]
            IN  (/\ ~item.empty
                 /\ \A j \in (i + 1)..Len(ParsedItems) : ParsedItems[j].name # item.name)
                => /\ item.name \in DOMAIN ingredients
                   /\ ingredients[item.name].qty = StoredQty(item.qty)
                   /\ ingredients[item.name].unit = item.unit
                   /\ ingredients[item.name].category = JStr(item.category)
                   /\ ingredients[item.name].expires_on = JStr(item.expires_on)
                   /\ ingredients[item.name].diet_type = JStr(item.diet_type)
                   /\ ingredients[item.name].diet_type = JStr(GuessDietType(item.name))

(***************************************************************************)
(* The command line against the web app                                    *)
(***************************************************************************)
IsCliRank == call.op = "rank_ingredients_cli"

\* What the web app ranks for the rows, the clock readings and the sidebar
\* settings of the call.
WebRanked == RankIngredients(call.items, call.flags, call.clock)

RankedNames(ranked) == [i \in 1..Len(ranked) |-> ranked[i].name]

\* C17: on the same rows (in the order list_ingredients returns them), the
\* same clock readings and the same dietary value, the command line ranks in
\* the order and builds the snapshot text the web app does with the exclusion
\* checkboxes at their defaults for that dietary value.
C17_CliMatchesWeb ==
    (IsCliRank /\ OrderedByName(call.items) /\ call.flags = DefaultFlags(call.flags.selected_diet))
        => /\ RankedNames(result.ranked) = RankedNames(WebRanked)
           /\ BuildRankedBlock(result.ranked, DefaultLimit) = SnapshotBlock(WebRanked, DefaultLimit)

(***************************************************************************)
(* The web app and the command line on one database: the form, bulk add,   *)
(* delete, apply_usage, generation runs and the clicks on what they render.*)
(***************************************************************************)
UsageBlock(doc) == <<Fence, UsageTag, Newline, doc, Newline, Fence>>

\* The LLM is down, answers without a usage block, with the list asked for,
\* or with one recipe object.
LlmReplies ==
    { LlmRaises, LlmReturns(<<Newline>>), LlmReturns(UsageBlock(RecipeDoc)),
      LlmReturns(UsageBlock(ObjectDoc)) }

AppFlags == {DefaultFlags(Veg)}

InitApp ==
    /\ ingredients = <<>>
    /\ call = NoCall
    /\ result = NoResult
    /\ history = <<>>
    /\ schema = WebTables
    /\ session = NoSession
    /\ conns = NoConns

NextApp ==
    \/ Upsert(<<"a">>, 1, <<"g">>, JStr(Dairy), JStr(Veg), ExpTomorrow)
    \/ BulkAdd(<<"b", " ", "2", "g">>, BulkDefaultUnit, BulkDefaultDays, ClockDay)
    \/ \E name \in DOMAIN ingredients : Delete(name)
    \/ ApplyUsage(RecipeValue[1].items)
    \/ \E flags \in AppFlags, llm \in LlmReplies : ClickGenerate(flags, llm, ClockDay)
    \/ \E idx \in 1..Len(session.usage), flags \in AppFlags :
          ClickUse(idx, flags, LlmRaises, ClockDay)
    \/ \E hid \in 1..Len(history), flags \in AppFlags :
          ViewHistory(hid, flags, LlmRaises, ClockDay)
    \/ \E flags \in AppFlags, llm \in LlmReplies,
          order \in Reorderings(Cardinality(DOMAIN ingredients)) :
          GenerateCli(flags.selected_diet, order, llm, ClockDay)

SpecApp == InitApp /\ [][NextApp]_vars

(***************************************************************************)
(* Properties of the recipe history                                        *)
(***************************************************************************)
\* C12: the history is append-only.  A step of any operation leaves it as it
\* was, except a generation run (web or command line) whose LLM call returned
\* a response, which appends exactly one entry; no step changes or removes an
\* entry already there.
C12_HistoryAppendOnly ==
    [][IF call'.op \in {"run_script", "cli"} /\ result'.llm_returned
       THEN /\ Len(history') = Len(history) + 1
            /\ SubSeq(history', 1, Len(history)) = history
            /\ history'[Len(history')].result_markdown \in {r.md : r \in LlmReplies \ {LlmRaises}}
       ELSE history' = history]_vars

\* C12 witness: a generation run whose LLM call failed, on a history that
\* already held an entry.
C12_Witness ==
    /\ Len(history) >= 1
    /\ call.op = "run_script" /\ call.click = ClickOn("generate", 0)
    /\ result.called_llm /\ ~result.llm_returned

(***************************************************************************)
(* Properties of the generation runs                                       *)
(***************************************************************************)
IsGenerationRun == call.op \in {"run_script", "cli"}

\* C13: a generation run, web or command line, that ends by showing the
\* "LLM error" message wrote no history entry and changed no ingredient row.
C13_LlmErrorCommitsNothing ==
    [][(IsGenerationRun' /\ result'.message = "LLM error")
           => /\ history' = history
              /\ ingredients' = ingredients]_vars

\* C18: a click on the "Use this recipe (deduct)" button of a recipe on the
\* page runs apply_usage with the items of that recipe: the rows after the
\* click are those apply_usage leaves.
C18_UseButtonDeducts ==
    [][(call'.op = "run_script" /\ call'.click.button = "use")
           => /\ result'.applied
              /\ ingredients' =
                     ApplyUsageOutcome(ingredients,
                                       session.usage[call'.click.key].items).rows]_vars

(***************************************************************************)
(* Two calls on connections of their own, on a pantry holding the row 'a'. *)
(***************************************************************************)
RaceName == <<"a">>
RacePantry == [n \in {RaceName} |-> SampleRow(MaxQty)]

RaceCalls ==
    {ApplyCall(items) :
        items \in SeqsUpTo({Item(JStr(RaceName), JNum(k), JNull) : k \in 1..MaxQty}, MaxItems)}
    \cup {UpsertCall(q) : q \in 0..MaxQty}

InitRace ==
    /\ ingredients = RacePantry
    /\ call = NoCall
    /\ result = NoResult
    /\ history = <<>>
    /\ schema = WebTables
    /\ session = NoSession
    /\ conns \in [{1, 2} -> RaceCalls]

NextRace ==
    \E p \in DOMAIN conns :
        \/ TxSelect(p)
        \/ TxUpdate(p)
        \/ TxCommit(p)
        \/ TxUpsert(p, RaceName, <<"g">>, "veg", "veg", "none")

SpecRace == InitRace /\ [][NextRace]_vars

(***************************************************************************)
(* Properties of concurrent calls                                          *)
(***************************************************************************)
\* The table one call leaves when it runs alone.
AloneRows(rows, c) ==
    IF c.kind = "apply" THEN ApplyUsageOutcome(rows, c.items).rows
    ELSE UpsertRows(rows, RaceName, Row(c.qty, <<"g">>, "veg", "veg", "none"))

BothDone == \A p \in DOMAIN conns : conns[p].pc = "done"

\* C21: when two calls (apply_usage with apply_usage, or apply_usage with an
\* upsert) on the same row have both finished, the row's quantity is what
\* running the two calls one after the other, in one of the two orders,
\* leaves: no deduction is lost.
C21_NoLostDeduction ==
    (DOMAIN conns = {1, 2} /\ BothDone /\ \E p \in {1, 2} : conns[p].kind = "apply")
        => ingredients[RaceName].qty \in
               { AloneRows(AloneRows(RacePantry, conns[1]), conns[2])[RaceName].qty,
                 AloneRows(AloneRows(RacePantry, conns[2]), conns[1])[RaceName].qty }

====
